---- MODULE Spec2Model ----
(***************************************************************************)
(* Model of the parallel capture-and-encode job of VueSeq                  *)
(* (renderToMp4Parallel, src/unnamed/part_003).                            *)
(*                                                                         *)
(* The host side is one JavaScript event loop: the code between two awaits *)
(* runs atomically, so every action below is one such synchronous segment, *)
(* started by the completion (or failure) of the awaited call.             *)
(*                                                                         *)
(* Rationals (timestamps, durations) are pairs <<numerator, denominator>>. *)
(* The two tuning constants of the source, MAX_BUFFERED_FRAMES = 300 and   *)
(* ENCODE_BATCH_SIZE = 5, are scaled down (keeping 0 < batch < capacity)   *)
(* so that the flow-control paths are reached with a handful of frames.    *)
(*                                                                         *)
(* The second part models the GPU capability detector                      *)
(* (detectBestGPUConfig and its caches, src/src/renderer/gpu.js) together  *)
(* with the command line flow that drives it; DetectSpec is a process that *)
(* uses the detector. CACHE_TTL is scaled to two clock units.              *)
(***************************************************************************)
EXTENDS Integers, Sequences, FiniteSets, TLC

\* ---------------------------------------------------------------- bounds
MaxWorkers == 2
MaxDurNum == 8
MaxTime == 2
MaxCalls == 2

\* ------------------------------------------------------ program constants
MAX_BUFFERED_FRAMES == 3
ENCODE_BATCH_SIZE == 2

\* frame rates offered as input (fps = 0 gives a job of no frames); durations
\* are offered in half seconds, 1/2 s .. MaxDurNum/2 s
FpsChoices == {0, 1, 2}

\* the caller id of the main flow of renderToMp4Parallel (workers are 0..W-1)
MAIN == -1

VARIABLES
    numWorkers,        \* option workers
    fps,               \* option fps
    durNum,            \* option duration = durNum / 2 seconds
    totalFrames,       \* Math.ceil(duration * fps)
    pc,                \* position of the main flow
    err,               \* the error the job is about to reject with ("none")
    serverUp,          \* createVideoServer has returned
    serverCleaned,     \* cleanupServer has returned
    browserOpen,       \* chromium.launch has returned
    browserClosed,     \* browser.close has been called and returned
    pagesReady,        \* pages.length
    frameAssignments,  \* per worker: the ascending list of its frame indices
    frameBuffer,       \* Map frame index -> dataUrl
    nextEncodeFrame,
    encodedCount,
    wpc,               \* per worker: position of runWorker
    wpos,              \* per worker: index of the current frame in its list
    enc,               \* per caller: the batch it has in flight on the encoder
    appended,          \* what the encoder's video source received, in order
    captureCount,      \* per frame index: number of capture requests issued
    failedFrames,      \* frame indices whose capture call threw
    firstFail,         \* rejection reason of Promise.all ("none")
    finalized,         \* number of successful Output.finalize calls
    fileWritten,       \* number of successful writeFile calls
    thrown,            \* history: the kinds of awaited calls that have thrown
    progress,          \* the argument of the latest onProgress call (<<>>: none)
    pages              \* pages[k]: the page, with the history of the calls made on it

\* the GPU capability detector (src/src/renderer/gpu.js) and the command line
\* flow that drives it (src/src/runtime/gsap-bridge.js)
VARIABLES
    cachedConfig,      \* module variable cachedConfig (NullConfig for null)
    cacheFile,         \* the cache file CACHE_FILE on disk
    now,               \* Date.now(), counted in halves of CACHE_TTL
    dpc,               \* position of the detectBestGPUConfig call
    forceDetect,       \* option forceDetect of the call
    preferBackend,     \* option preferBackend of the call ("none": undefined)
    caller,            \* who awaits the call: "api", "cli" or "renderer"
    idx,               \* index of the loop's candidate (0 outside the loop)
    config,            \* local config: the profile built by this call
    stamp,             \* Date.now() as read by the pending saveCachedConfig
    result,            \* what the last call returned
    calls,             \* number of calls a library consumer has made
    gpuBackend,        \* --gpu-backend of the command line ("none": no CLI run)
    cliStep,           \* position of the command line flow
    reported,          \* the profile the command line printed
    launchConfig,      \* the launch configuration the renderer obtained
    probed,            \* history: names of the backends probed by this call
    reports,           \* history: isHardwareAccelerated of each finished probe
    lastOutcome,       \* history: what the last finished probe ran into
    lastRenderer,      \* history: the renderer string it reported (<<>>: none)
    saved,             \* history: outcome of this call's cache write
    hit,               \* history: the cache this call was answered from
    memStamp,          \* history: time stamp of the profile held in memory
    atCall,            \* history: in-memory cache and its age at call time
    atLoad             \* history: file and clock seen by loadCachedConfig

\* renderToMp4Optimized (src/src/renderer/encode-optimized.js): the frame loop
VARIABLES
    batchSize,         \* option batchSize
    batchIndex,        \* loop variable of the batch loop
    frame,             \* loop variable of the frame loop
    opc,               \* position of the frame loop
    sought,            \* the times window.__VUESEQ_SEEK__ was called with, in order
    encoded,           \* the captureAndEncodeFrame calls that returned, in order
    optProgress        \* the argument of the latest onProgress call (<<>>: none)

optimized == <<batchSize, batchIndex, frame, opc, sought, encoded, optProgress>>

\* the render job's variables
job == <<numWorkers, fps, durNum, totalFrames, pc, err, serverUp, serverCleaned,
         browserOpen, browserClosed, pagesReady, frameAssignments, frameBuffer,
         nextEncodeFrame, encodedCount, wpc, wpos, enc, appended, captureCount,
         failedFrames, firstFail, finalized, fileWritten, thrown, progress, pages,
         optimized>>

\* the variables of renderToMp4Parallel
parallel ==
    <<numWorkers, fps, durNum, totalFrames, pc, err, serverUp, serverCleaned,
      browserOpen, browserClosed, pagesReady, frameAssignments, frameBuffer,
      nextEncodeFrame, encodedCount, wpc, wpos, enc, appended, captureCount,
      failedFrames, firstFail, finalized, fileWritten, thrown, progress, pages>>

\* the detector's variables
detector == <<cachedConfig, cacheFile, now, dpc, forceDetect, preferBackend, caller,
              idx, config, stamp, result, calls, gpuBackend, cliStep, reported,
              launchConfig, probed, reports, lastOutcome, lastRenderer, saved, hit, memStamp,
              atCall, atLoad>>

vars == <<job, detector>>

\* ------------------------------------------------------------ pure helpers

\* Math.ceil(a / b) for a >= 0, b > 0
CeilDiv(a, b) == (a + b - 1) \div b

\* totalFrames = Math.ceil(duration * fps), duration = d / 2
TotalFrames(d, f) == CeilDiv(d * f, 2)

\* (mutation of Timestamp: the timestamp of the following frame)
TimestampNext(i, f) == <<i + 1, f>>

\* frameIndex / fps
Timestamp(i, f) == <<i, f>>

\* 1 / fps
FrameDuration(f) == <<1, f>>

\* the JPEG a worker page returns after seeking to frameIndex / fps
CaptureFrameJPEG(i, f) == [seek |-> Timestamp(i, f)]

Workers == 0 .. (numWorkers - 1)

Callers == Workers \cup {MAIN}

\* (mutation of PushFrames: unshift instead of push, a worker's list runs from
\* its highest frame down)
RECURSIVE PushFramesFront(_, _, _, _)
PushFramesFront(asg, i, n, w) ==
    IF i >= n THEN asg
    ELSE PushFramesFront([asg EXCEPT ![i % w] = <<i>> \o @], i + 1, n, w)

\* for (i = 0; i < totalFrames; i++) frameAssignments[i % numWorkers].push(i)
RECURSIVE PushFrames(_, _, _, _)
PushFrames(asg, i, n, w) ==
    IF i >= n THEN asg
    ELSE PushFrames([asg EXCEPT ![i % w] = Append(@, i)], i + 1, n, w)

\* (mutation of FrameAssignments: the loop starts at i = 1)
FrameAssignmentsFromOne(n, w) == PushFrames([k \in 0 .. (w - 1) |-> <<>>], 1, n, w)

FrameAssignments(n, w) == PushFrames([k \in 0 .. (w - 1) |-> <<>>], 0, n, w)

\* frameBuffer.size
Size(buf) == Cardinality(DOMAIN buf)

\* frameBuffer.set(i, v)
MapSet(buf, i, v) == [k \in (DOMAIN buf) \cup {i} |-> IF k = i THEN v ELSE buf[k]]

\* (mutation of CollectBatch: best-effort ordering, a missing head-of-line
\* frame is skipped and the batch starts at the lowest frame present)
RECURSIVE CollectRun(_, _, _, _)
CollectRun(buf, lookahead, batch, f) ==
    IF lookahead \in DOMAIN buf /\ Len(batch) < ENCODE_BATCH_SIZE
    THEN CollectRun(buf, lookahead + 1,
                    Append(batch, [index |-> lookahead,
                                   dataUrl |-> buf[lookahead],
                                   timestamp |-> <<lookahead, f>>]), f)
    ELSE batch

CollectBatchSkipGap(buf, lookahead, batch, f) ==
    IF lookahead \in DOMAIN buf \/ DOMAIN buf = {}
    THEN CollectRun(buf, lookahead, batch, f)
    ELSE CollectRun(buf, CHOOSE m \in DOMAIN buf : \A k \in DOMAIN buf : m <= k, batch, f)

\* (mutation of CollectBatch: the batch has no cap)
RECURSIVE CollectBatchUncapped(_, _, _, _)
CollectBatchUncapped(buf, lookahead, batch, f) ==
    IF lookahead \in DOMAIN buf
    THEN CollectBatchUncapped(buf, lookahead + 1,
                              Append(batch, [index |-> lookahead,
                                             dataUrl |-> buf[lookahead],
                                             timestamp |-> <<lookahead, f>>]), f)
    ELSE batch

\* the collecting loop of processEncodeQueue: frames at consecutive indices
\* from lookahead on, while present and while the batch is below the cap
RECURSIVE CollectBatch(_, _, _, _)
CollectBatch(buf, lookahead, batch, f) ==
    IF lookahead \in DOMAIN buf /\ Len(batch) < ENCODE_BATCH_SIZE
    THEN CollectBatch(buf, lookahead + 1,
                      Append(batch, [index |-> lookahead,
                                     dataUrl |-> buf[lookahead],
                                     timestamp |-> Timestamp(lookahead, f)]), f)
    ELSE batch

\* (mutation of DeleteBatch: the collected frames stay in the buffer)
DeleteBatchKeep(buf, batch) == buf

\* frameBuffer.delete(lookahead) for every collected frame
DeleteBatch(buf, batch) ==
    LET gone == {batch[k].index : k \in 1 .. Len(batch)}
    IN  [k \in (DOMAIN buf) \ gone |-> buf[k]]

\* pages[0], the encoder page
EncoderPage == 0

\* (mutation of WorkerPage: pages[workerIndex])
WorkerPageFromZero(w) == w

\* const page = pages[workerIndex + 1]
WorkerPage(w) == w + 1

\* The page that becomes pages[k]: newPage and goto(url, networkidle); a worker
\* page then awaits window.__VUESEQ_READY__ === true, the encoder page does
\* not; then injectLibraries.  seeks: the frames sought and captured on the
\* page, calls: the evaluate calls made on its encode canvas and output.
NewPage(k) == [role |-> IF k = EncoderPage THEN "encoder" ELSE "worker",
               ready |-> k # EncoderPage,
               seeks |-> {},
               calls |-> {}]

\* pages.push(page)
Push(pgs, page) ==
    LET length == Cardinality(DOMAIN pgs)
    IN  [k \in 0 .. length |-> IF k = length THEN page ELSE pgs[k]]

\* captureFrameJPEG(pages[k], i / fps) is called
Seek(pgs, k, i) ==
    [p \in DOMAIN pgs |-> IF p = k THEN [pgs[p] EXCEPT !.seeks = @ \cup {i}] ELSE pgs[p]]

\* pages[k].evaluate of the encoder initialisation ("init"), of
\* window.loadAndEncode ("encode") or of the finalisation ("finalize") is called
Evaluate(pgs, k, call) ==
    [p \in DOMAIN pgs |-> IF p = k THEN [pgs[p] EXCEPT !.calls = @ \cup {call}] ELSE pgs[p]]

Idle == [todo |-> <<>>, lookahead |-> 0, len |-> 0, active |-> FALSE]


\* the options of the job, and the variables that belong to the other render
\* function
inputs == <<numWorkers, fps, durNum, totalFrames, optimized>>

infra == <<serverUp, serverCleaned, browserOpen, browserClosed, pagesReady>>

\* ============================ GPU capability detector: data and functions

\* GPU_BACKENDS.linux: the candidates in probing order, each with its channel
\* and the argument that tells its launch configuration from the others
Backends ==
    << [name |-> "vulkan",   channel |-> "chromium", args |-> "--use-angle=vulkan"],
       [name |-> "egl",      channel |-> "chromium", args |-> "--use-gl=egl"],
       [name |-> "desktop",  channel |-> "chromium", args |-> "--use-gl=desktop"],
       [name |-> "angle-gl", channel |-> "chromium", args |-> "--use-angle=gl"] >>

\* SOFTWARE_FALLBACK: legacy headless, no channel
SOFTWARE_FALLBACK == [name |-> "software", channel |-> "undefined", args |-> "--no-sandbox"]

\* CACHE_TTL (24 hours in the source) in clock units
CACHE_TTL == 2

\* the profile { backend: name, channel, args, isHardwareAccelerated } built
\* for a backend of the table
Profile(backend, hw) ==
    [backend |-> backend.name, channel |-> backend.channel, args |-> backend.args,
     isHardwareAccelerated |-> hw]

\* null, where a profile is expected
NullConfig == [backend |-> "null", channel |-> "null", args |-> "null",
               isHardwareAccelerated |-> FALSE]

\* the profile of the fallback branch
SoftwareConfig == Profile(SOFTWARE_FALLBACK, FALSE)

\* backends.find((b) => b.name === name): the index of the match, 0 for undefined
Find(name) ==
    IF \E k \in 1 .. Len(Backends) : Backends[k].name = name
    THEN CHOOSE k \in 1 .. Len(Backends) : Backends[k].name = name
    ELSE 0

\* the cache file: absent or unreadable, not parseable, or the JSON of
\* { timestamp, config }
MissingFile == [state |-> "missing", timestamp |-> 0, config |-> NullConfig]

CorruptFile == [state |-> "corrupt", timestamp |-> 0, config |-> NullConfig]

ValidFile(t, c) == [state |-> "valid", timestamp |-> t, config |-> c]

\* what a probe can run into: chromium.launch throws or times out; the launch
\* succeeds and newContext, newPage or page.evaluate throws ("queryError"); or
\* the page script returns one of its four results
ProbeOutcomes ==
    {"launchError", "timeout", "queryError", "noWebGL", "noRendererInfo",
     "softwareRenderer", "hardwareRenderer"}

\* Strings are sequences of pieces, cut so that every signature looked for
\* begins and ends at a cut; String.prototype.toLowerCase works piece by piece.
ToLowerCase(s) ==
    [k \in DOMAIN s |->
        CASE s[k] = "ANGLE ("     -> "angle ("
          [] s[k] = "NVIDIA"      -> "nvidia"
          [] s[k] = "AMD Radeon"  -> "amd radeon"
          [] s[k] = "Google "     -> "google "
          [] s[k] = "SwiftShader" -> "swiftshader"
          [] s[k] = "LLVM"        -> "llvm"
          [] s[k] = "Mesa"        -> "mesa"
          [] s[k] = "Microsoft"   -> "microsoft"
          [] s[k] = "Basic"       -> "basic"
          [] s[k] = "Render"      -> "render"
          [] s[k] = " Driver"     -> " driver"
          [] OTHER                -> s[k]]

\* String.prototype.includes
Includes(s, part) ==
    \E i \in 0 .. (Len(s) - Len(part)) :
        \A k \in 1 .. Len(part) : s[i + k] = part[k]

\* renderer strings a WebGL context reports (UNMASKED_RENDERER_WEBGL)
Renderers ==
    { <<"ANGLE (", "NVIDIA", ")">>,
      <<"Google ", "SwiftShader">>,
      <<"llvm", "pipe", " (", "LLVM", ")">>,
      <<"ANGLE (", "AMD Radeon", " (", "LLVM", "), OpenGL ", "Mesa", ")">>,
      <<"Microsoft", " ", "Basic", " ", "Render", " Driver">> }

\* isSoftware of testGPUBackend's page script
IsSoftware(renderer) ==
    LET rendererLower == ToLowerCase(renderer)
    IN  \/ Includes(rendererLower, <<"swiftshader">>)
        \/ Includes(rendererLower, <<"llvm", "pipe">>)
        \/ Includes(rendererLower, <<"software">>)
        \/ Includes(rendererLower, <<"microsoft", " ", "basic", " ", "render">>)

\* the renderer strings the page script takes for software rendering
SoftwareRenderers == {r \in Renderers : IsSoftware(r)}

\* the renderer strings behind each outcome of a probe: a probe that gets as
\* far as the renderer information is software or hardware rendered as
\* isSoftware says
Reported(outcome) ==
    CASE outcome = "softwareRenderer" -> SoftwareRenderers
      [] outcome = "hardwareRenderer" -> Renderers \ SoftwareRenderers
      [] OTHER -> {<<>>}

\* (mutation of TestGPUBackend: a context whose renderer cannot be told counts
\* as hardware accelerated)
TestGPUBackendLenient(outcome) ==
    CASE outcome \in {"launchError", "timeout"} ->
             [threw |-> FALSE, supported |-> FALSE, isHardwareAccelerated |-> FALSE,
              browser |-> "none"]
      [] outcome = "queryError" ->
             [threw |-> FALSE, supported |-> FALSE, isHardwareAccelerated |-> FALSE,
              browser |-> "open"]
      [] outcome = "noWebGL" ->
             [threw |-> FALSE, supported |-> FALSE, isHardwareAccelerated |-> FALSE,
              browser |-> "closed"]
      [] outcome = "softwareRenderer" ->
             [threw |-> FALSE, supported |-> TRUE, isHardwareAccelerated |-> FALSE,
              browser |-> "closed"]
      [] outcome \in {"noRendererInfo", "hardwareRenderer"} ->
             [threw |-> FALSE, supported |-> TRUE, isHardwareAccelerated |-> TRUE,
              browser |-> "closed"]

\* (mutation of TestGPUBackend: the catch block is missing)
TestGPUBackendUncaught(outcome) ==
    CASE outcome \in {"launchError", "timeout"} ->
             [threw |-> TRUE, supported |-> FALSE, isHardwareAccelerated |-> FALSE,
              browser |-> "none"]
      [] outcome = "queryError" ->
             [threw |-> TRUE, supported |-> FALSE, isHardwareAccelerated |-> FALSE,
              browser |-> "open"]
      [] outcome = "noWebGL" ->
             [threw |-> FALSE, supported |-> FALSE, isHardwareAccelerated |-> FALSE,
              browser |-> "closed"]
      [] outcome \in {"noRendererInfo", "softwareRenderer"} ->
             [threw |-> FALSE, supported |-> TRUE, isHardwareAccelerated |-> FALSE,
              browser |-> "closed"]
      [] outcome = "hardwareRenderer" ->
             [threw |-> FALSE, supported |-> TRUE, isHardwareAccelerated |-> TRUE,
              browser |-> "closed"]

\* testGPUBackend: what the probe resolves to (result.isHardwareAccelerated is
\* undefined, hence falsy, where the source leaves it out); it never throws.
\* browser: the browser the probe launched is closed by the browser.close()
\* that follows page.evaluate, and left open when the catch block is entered
\* after the launch ("none": the launch did not succeed)
TestGPUBackend(outcome) ==
    CASE outcome \in {"launchError", "timeout"} ->
             [threw |-> FALSE, supported |-> FALSE, isHardwareAccelerated |-> FALSE,
              browser |-> "none"]
      [] outcome = "queryError" ->
             [threw |-> FALSE, supported |-> FALSE, isHardwareAccelerated |-> FALSE,
              browser |-> "open"]
      [] outcome = "noWebGL" ->
             [threw |-> FALSE, supported |-> FALSE, isHardwareAccelerated |-> FALSE,
              browser |-> "closed"]
      [] outcome \in {"noRendererInfo", "softwareRenderer"} ->
             [threw |-> FALSE, supported |-> TRUE, isHardwareAccelerated |-> FALSE,
              browser |-> "closed"]
      [] outcome = "hardwareRenderer" ->
             [threw |-> FALSE, supported |-> TRUE, isHardwareAccelerated |-> TRUE,
              browser |-> "closed"]

\* (mutation of LoadCachedConfig: the entry expires one clock unit early)
LoadCachedConfigEarly(file, t) ==
    IF file.state = "valid" /\ t - file.timestamp < CACHE_TTL - 1
    THEN file.config
    ELSE NullConfig

\* loadCachedConfig: the cached profile, null when the file cannot be read or
\* parsed or when its entry is CACHE_TTL old
LoadCachedConfig(file, t) ==
    IF file.state = "valid" /\ t - file.timestamp < CACHE_TTL
    THEN file.config
    ELSE NullConfig

\* saveCachedConfig: the file after the write of { timestamp, config }; a write
\* that fails leaves the file as it was or cut short
SaveCachedConfig(file, c, t, written) ==
    CASE written = "ok"      -> ValidFile(t, c)
      [] written = "failed"  -> file
      [] written = "partial" -> CorruptFile

\* getOptimalChromiumConfig: the launch configuration taken from a profile
ChromiumConfig(c) == [channel |-> c.channel, args |-> c.args]

\* the detector of a process that has just loaded gpu.js and called nothing
DetectorAtRest ==
    /\ cachedConfig = NullConfig
    /\ now = 0
    /\ dpc = "idle"
    /\ forceDetect = FALSE
    /\ preferBackend = "none"
    /\ caller = "api"
    /\ idx = 0
    /\ config = NullConfig
    /\ stamp = 0
    /\ result = NullConfig
    /\ calls = 0
    /\ reported = NullConfig
    /\ launchConfig = ChromiumConfig(NullConfig)
    /\ probed = <<>>
    /\ reports = <<>>
    /\ lastOutcome = "none"
    /\ lastRenderer = <<>>
    /\ saved = "none"
    /\ hit = "none"
    /\ memStamp = 0
    /\ atCall = [mem |-> NullConfig, age |-> 0]
    /\ atLoad = [file |-> MissingFile, now |-> 0]

\* renderToMp4Optimized is not running
OptimizedAtRest ==
    /\ batchSize = 1
    /\ batchIndex = 0
    /\ frame = 0
    /\ opc = "idle"
    /\ sought = <<>>
    /\ encoded = <<>>
    /\ optProgress = <<>>

\* ------------------------------------------------------------------- Init

\* the state at the first await of renderToMp4Parallel (duration was given)
Init ==
    /\ numWorkers \in 1 .. MaxWorkers
    /\ fps \in FpsChoices
    /\ durNum \in 1 .. MaxDurNum
    /\ totalFrames = TotalFrames(durNum, fps)
    /\ pc = "createServer"
    /\ err = "none"
    /\ serverUp = FALSE
    /\ serverCleaned = FALSE
    /\ browserOpen = FALSE
    /\ browserClosed = FALSE
    /\ pagesReady = 0
    /\ frameAssignments = [w \in Workers |-> <<>>]
    /\ frameBuffer = [k \in {} |-> 0]
    /\ nextEncodeFrame = 0
    /\ encodedCount = 0
    /\ wpc = [w \in Workers |-> "idle"]
    /\ wpos = [w \in Workers |-> 0]
    /\ enc = [c \in Callers |-> Idle]
    /\ appended = <<>>
    /\ captureCount = [i \in 0 .. (totalFrames - 1) |-> 0]
    /\ failedFrames = {}
    /\ firstFail = "none"
    /\ finalized = 0
    /\ fileWritten = 0
    /\ thrown = {}
    /\ progress = <<>>
    /\ pages = [k \in {} |-> 0]
    /\ DetectorAtRest
    /\ OptimizedAtRest
    /\ cacheFile = MissingFile
    /\ gpuBackend = "none"
    /\ cliStep = "api"

\* ---------------------------------------------------- processEncodeQueue

\* the batch a call of processEncodeQueue collects from buffer buf
Batch(buf) == CollectBatch(buf, nextEncodeFrame, <<>>, fps)

\* The synchronous part of processEncodeQueue called by c on buffer buf:
\* collect and delete the batch and, when it is not empty, send it to the
\* encoder page (the call then awaits the encoder).
ProcessEncodeQueue(c, buf) ==
    LET batch == Batch(buf)
    IN  /\ frameBuffer' = DeleteBatch(buf, batch)
        /\ enc' = IF Len(batch) > 0
                  THEN [enc EXCEPT ![c] = [todo |-> batch,
                                           lookahead |-> nextEncodeFrame + Len(batch),
                                           len |-> Len(batch),
                                           active |-> TRUE]]
                  ELSE enc
        /\ pages' = IF Len(batch) > 0 THEN Evaluate(pages, EncoderPage, "encode")
                                      ELSE pages

\* (mutation of Percent: the share of the frames still to encode)
PercentRemaining(n, total) == (200 * (total - n) + total) \div (2 * total)

\* Math.round((n / total) * 100), halves rounded up, for total > 0
Percent(n, total) == (200 * n + total) \div (2 * total)

\* window.loadAndEncode, sequential part: draw the next image of c's batch
\* and add it to the video source at (timestamp, 1 / fps)
EncodeAppend(c) ==
    /\ enc[c].active
    /\ enc[c].todo # <<>>
    /\ browserOpen /\ ~browserClosed
    /\ appended' = Append(appended, [index |-> Head(enc[c].todo).index,
                                     image |-> Head(enc[c].todo).dataUrl,
                                     timestamp |-> Head(enc[c].todo).timestamp,
                                     duration |-> FrameDuration(fps)])
    /\ enc' = [enc EXCEPT ![c].todo = Tail(@)]
    /\ UNCHANGED <<detector, pages, progress, inputs, infra, pc, err, frameAssignments, frameBuffer,
                   nextEncodeFrame, encodedCount, wpc, wpos, captureCount,
                   failedFrames, firstFail, finalized, fileWritten, thrown>>

\* (mutation of EncodeReturn: encodedCount counts the encoder calls, not the
\* frames of the batch)
EncodeReturnCountsCalls(c) ==
    /\ enc[c].active
    /\ enc[c].todo = <<>>
    /\ nextEncodeFrame' = enc[c].lookahead
    /\ encodedCount' = encodedCount + 1
    /\ progress' = << [frame |-> encodedCount',
                       total |-> totalFrames,
                       percent |-> Percent(encodedCount', totalFrames)] >>
    /\ enc' = [enc EXCEPT ![c] = Idle]
    /\ IF c = MAIN
       THEN pc' = "mainRet" /\ wpc' = wpc
       ELSE /\ pc' = pc
            /\ wpc' = [wpc EXCEPT ![c] = IF @ = "encIns" THEN "retIns" ELSE "retWait"]
    /\ UNCHANGED <<detector, pages, inputs, infra, err, frameAssignments, frameBuffer, wpos,
                   appended, captureCount, failedFrames, firstFail, finalized,
                   fileWritten, thrown>>

\* encoderPage.evaluate returned: the rest of processEncodeQueue
EncodeReturn(c) ==
    /\ enc[c].active
    /\ enc[c].todo = <<>>
    /\ nextEncodeFrame' = enc[c].lookahead
    /\ encodedCount' = encodedCount + enc[c].len
    /\ progress' = << [frame |-> encodedCount',
                       total |-> totalFrames,
                       percent |-> Percent(encodedCount', totalFrames)] >>
    /\ enc' = [enc EXCEPT ![c] = Idle]
    /\ IF c = MAIN
       THEN pc' = "mainRet" /\ wpc' = wpc
       ELSE /\ pc' = pc
            /\ wpc' = [wpc EXCEPT ![c] = IF @ = "encIns" THEN "retIns" ELSE "retWait"]
    /\ UNCHANGED <<detector, pages, inputs, infra, err, frameAssignments, frameBuffer, wpos,
                   appended, captureCount, failedFrames, firstFail, finalized,
                   fileWritten, thrown>>

\* (mutation of EncodeFail: the failed batch is skipped, nextEncodeFrame moves
\* past it)
EncodeFailSkipsBatch(c) ==
    /\ enc[c].active
    /\ enc' = [enc EXCEPT ![c] = Idle]
    /\ nextEncodeFrame' = enc[c].lookahead
    /\ IF c = MAIN
       THEN /\ pc' = "finally"
            /\ err' = "encode"
            /\ UNCHANGED <<wpc, firstFail>>
       ELSE /\ wpc' = [wpc EXCEPT ![c] = "failed"]
            /\ firstFail' = IF firstFail = "none" THEN "encode" ELSE firstFail
            /\ UNCHANGED <<pc, err>>
    /\ thrown' = thrown \cup {"encode"}
    /\ UNCHANGED <<detector, pages, progress, inputs, infra, frameAssignments, frameBuffer,
                   encodedCount, wpos, appended, captureCount, failedFrames,
                   finalized, fileWritten>>

\* encoderPage.evaluate threw (decode or add failed, or the browser is gone):
\* the exception leaves processEncodeQueue and its caller
EncodeFail(c) ==
    /\ enc[c].active
    /\ enc' = [enc EXCEPT ![c] = Idle]
    /\ IF c = MAIN
       THEN /\ pc' = "finally"
            /\ err' = "encode"
            /\ UNCHANGED <<wpc, firstFail>>
       ELSE /\ wpc' = [wpc EXCEPT ![c] = "failed"]
            /\ firstFail' = IF firstFail = "none" THEN "encode" ELSE firstFail
            /\ UNCHANGED <<pc, err>>
    /\ thrown' = thrown \cup {"encode"}
    /\ UNCHANGED <<detector, pages, progress, inputs, infra, frameAssignments, frameBuffer, nextEncodeFrame,
                   encodedCount, wpos, appended, captureCount, failedFrames,
                   finalized, fileWritten>>

\* -------------------------------------------------------------- runWorker

\* (mutation of CurrentFrame: the loop variable stays at the first frame)
CurrentFrameFirst(w) == frameAssignments[w][1]

\* frameIndex of worker w's current iteration of `for (const frameIndex of frames)`
CurrentFrame(w) == frameAssignments[w][wpos[w]]

\* captureFrameJPEG(page, frameIndex / fps) is issued for worker w's frame i
IssueCapture(w, i) ==
    /\ wpc' = [wpc EXCEPT ![w] = "capture"]
    /\ captureCount' = [captureCount EXCEPT ![i] = @ + 1]
    /\ pages' = Seek(pages, WorkerPage(w), i)

\* the capture returned: frameBuffer.set, then processEncodeQueue
CaptureReturn(w) ==
    /\ wpc[w] = "capture"
    /\ browserOpen /\ ~browserClosed
    /\ LET i == CurrentFrame(w)
           buf == MapSet(frameBuffer, i, CaptureFrameJPEG(i, fps))
       IN  /\ ProcessEncodeQueue(w, buf)
           /\ wpc' = [wpc EXCEPT ![w] = IF Len(Batch(buf)) > 0 THEN "encIns"
                                                               ELSE "retIns"]
    /\ UNCHANGED <<detector, progress, inputs, infra, pc, err, frameAssignments, nextEncodeFrame,
                   encodedCount, wpos, appended, captureCount, failedFrames,
                   firstFail, finalized, fileWritten, thrown>>

\* (mutation of CaptureFail: the failed capture is requested again)
CaptureFailRetry(w) ==
    /\ wpc[w] = "capture"
    /\ captureCount' = [captureCount EXCEPT ![CurrentFrame(w)] = @ + 1]
    /\ failedFrames' = failedFrames \cup {CurrentFrame(w)}
    /\ firstFail' = IF firstFail = "none" THEN "capture" ELSE firstFail
    /\ thrown' = thrown \cup {"capture"}
    /\ UNCHANGED <<detector, pages, progress, inputs, infra, pc, err, frameAssignments, frameBuffer,
                   nextEncodeFrame, encodedCount, wpc, wpos, enc, appended,
                   finalized, fileWritten>>

\* the capture threw: runWorker rejects
CaptureFail(w) ==
    /\ wpc[w] = "capture"
    /\ wpc' = [wpc EXCEPT ![w] = "failed"]
    /\ failedFrames' = failedFrames \cup {CurrentFrame(w)}
    /\ firstFail' = IF firstFail = "none" THEN "capture" ELSE firstFail
    /\ thrown' = thrown \cup {"capture"}
    /\ UNCHANGED <<detector, pages, progress, inputs, infra, pc, err, frameAssignments, frameBuffer,
                   nextEncodeFrame, encodedCount, wpos, enc, appended,
                   captureCount, finalized, fileWritten>>

\* (mutation of WorkerNext: the loop has no flow-control check)
WorkerNextUnchecked(w) ==
    /\ wpc[w] = "retIns"
    /\ IF wpos[w] >= Len(frameAssignments[w])
       THEN /\ wpc' = [wpc EXCEPT ![w] = "done"]
            /\ UNCHANGED <<wpos, captureCount, pages>>
       ELSE /\ wpos' = [wpos EXCEPT ![w] = @ + 1]
            /\ IssueCapture(w, frameAssignments[w][wpos[w] + 1])
    /\ UNCHANGED <<detector, progress, inputs, infra, pc, err, frameAssignments, frameBuffer,
                   nextEncodeFrame, encodedCount, enc, appended, failedFrames,
                   firstFail, finalized, fileWritten, thrown>>

\* processEncodeQueue (after the insert) returned: next iteration of the
\* for loop, with its flow-control check
WorkerNext(w) ==
    /\ wpc[w] = "retIns"
    /\ IF wpos[w] >= Len(frameAssignments[w])
       THEN /\ wpc' = [wpc EXCEPT ![w] = "done"]
            /\ UNCHANGED <<wpos, captureCount, pages>>
       ELSE /\ wpos' = [wpos EXCEPT ![w] = @ + 1]
            /\ IF /\ Size(frameBuffer) > MAX_BUFFERED_FRAMES
                  /\ Size(frameBuffer) > MAX_BUFFERED_FRAMES - ENCODE_BATCH_SIZE
               THEN /\ wpc' = [wpc EXCEPT ![w] = "sleep"]
                    /\ UNCHANGED <<captureCount, pages>>
               ELSE IssueCapture(w, frameAssignments[w][wpos[w] + 1])
    /\ UNCHANGED <<detector, progress, inputs, infra, pc, err, frameAssignments, frameBuffer,
                   nextEncodeFrame, encodedCount, enc, appended, failedFrames,
                   firstFail, finalized, fileWritten, thrown>>

\* the 50 ms timer of the wait loop fired: try to drain
SleepReturn(w) ==
    /\ wpc[w] = "sleep"
    /\ ProcessEncodeQueue(w, frameBuffer)
    /\ wpc' = [wpc EXCEPT ![w] = IF Len(Batch(frameBuffer)) > 0 THEN "encWait"
                                                                ELSE "retWait"]
    /\ UNCHANGED <<detector, progress, inputs, infra, pc, err, frameAssignments, nextEncodeFrame,
                   encodedCount, wpos, appended, captureCount, failedFrames,
                   firstFail, finalized, fileWritten, thrown>>

\* (mutation of WaitRecheck: the wait ends as soon as the buffer is back at
\* its capacity)
WaitRecheckAtCapacity(w) ==
    /\ wpc[w] = "retWait"
    /\ IF Size(frameBuffer) > MAX_BUFFERED_FRAMES
       THEN /\ wpc' = [wpc EXCEPT ![w] = "sleep"]
            /\ UNCHANGED <<captureCount, pages>>
       ELSE IssueCapture(w, CurrentFrame(w))
    /\ UNCHANGED <<detector, progress, inputs, infra, pc, err, frameAssignments, frameBuffer,
                   nextEncodeFrame, encodedCount, wpos, enc, appended,
                   failedFrames, firstFail, finalized, fileWritten, thrown>>

\* processEncodeQueue (in the wait loop) returned: the while condition
WaitRecheck(w) ==
    /\ wpc[w] = "retWait"
    /\ IF Size(frameBuffer) > MAX_BUFFERED_FRAMES - ENCODE_BATCH_SIZE
       THEN /\ wpc' = [wpc EXCEPT ![w] = "sleep"]
            /\ UNCHANGED <<captureCount, pages>>
       ELSE IssueCapture(w, CurrentFrame(w))
    /\ UNCHANGED <<detector, progress, inputs, infra, pc, err, frameAssignments, frameBuffer,
                   nextEncodeFrame, encodedCount, wpos, enc, appended,
                   failedFrames, firstFail, finalized, fileWritten, thrown>>


\* ------------------------------------------------- renderToMp4Parallel

workerState == <<frameAssignments, frameBuffer, nextEncodeFrame, encodedCount,
                 wpc, wpos, enc, appended, captureCount, failedFrames, firstFail>>

\* createVideoServer returned
CreateServerOK ==
    /\ pc = "createServer"
    /\ serverUp' = TRUE
    /\ pc' = "gpuConfig"
    /\ UNCHANGED <<detector, pages, progress, inputs, err, serverCleaned, browserOpen, browserClosed,
                   pagesReady, workerState, finalized, fileWritten, thrown>>

\* createVideoServer threw: nothing was acquired yet
CreateServerFail ==
    /\ pc = "createServer"
    /\ err' = "server"
    /\ pc' = "rejected"
    /\ thrown' = thrown \cup {"server"}
    /\ UNCHANGED <<detector, pages, progress, inputs, infra, workerState, finalized, fileWritten>>

\* getOptimalChromiumConfig returned (detectBestGPUConfig absorbs every
\* probe and cache failure and falls back to the software profile)
GpuConfig ==
    /\ pc = "gpuConfig"
    /\ pc' = "launch"
    /\ UNCHANGED <<detector, pages, progress, inputs, infra, err, workerState, finalized, fileWritten, thrown>>

\* chromium.launch returned
LaunchOK ==
    /\ pc = "launch"
    /\ browserOpen' = TRUE
    /\ pc' = "newContext"
    /\ UNCHANGED <<detector, pages, progress, inputs, err, serverUp, serverCleaned, browserClosed,
                   pagesReady, workerState, finalized, fileWritten, thrown>>

\* chromium.launch threw: the call is outside the try block
LaunchFail ==
    /\ pc = "launch"
    /\ err' = "launch"
    /\ pc' = "rejected"
    /\ thrown' = thrown \cup {"launch"}
    /\ UNCHANGED <<detector, pages, progress, inputs, infra, workerState, finalized, fileWritten>>

\* browser.newContext returned
NewContext ==
    /\ pc = "newContext"
    /\ pc' = "setup"
    /\ UNCHANGED <<detector, pages, progress, inputs, infra, err, workerState, finalized, fileWritten, thrown>>

\* the next page (encoder page first, then the worker pages) was created,
\* loaded and injected, and pushed to pages; after the last one the encoder
\* initialisation is called on the encoder page
SetupPage ==
    /\ pc = "setup"
    /\ pagesReady < numWorkers + 1
    /\ pagesReady' = pagesReady + 1
    /\ pages' = IF pagesReady' = numWorkers + 1
                THEN Evaluate(Push(pages, NewPage(pagesReady)), EncoderPage, "init")
                ELSE Push(pages, NewPage(pagesReady))
    /\ UNCHANGED <<detector, progress, inputs, pc, err, serverUp, serverCleaned, browserOpen,
                   browserClosed, workerState, finalized, fileWritten, thrown>>

\* newContext, newPage, goto, waitForFunction, injectLibraries or the encoder
\* initialisation threw: control goes to the finally block
SetupFail ==
    /\ pc \in {"newContext", "setup"}
    /\ err' = "setup"
    /\ pc' = "finally"
    /\ thrown' = thrown \cup {"setup"}
    /\ UNCHANGED <<detector, pages, progress, inputs, infra, workerState, finalized, fileWritten>>

\* The encoder initialisation returned: build frameAssignments and call
\* runWorker(0..W-1); each runs to its first await (the buffer is empty, so
\* the flow-control check passes and the first capture is issued).
StartWorkers ==
    /\ pc = "setup"
    /\ pagesReady = numWorkers + 1
    /\ LET asg == FrameAssignments(totalFrames, numWorkers)
           first == {asg[w][1] : w \in {v \in Workers : Len(asg[v]) > 0}}
       IN  /\ frameAssignments' = asg
           /\ wpc' = [w \in Workers |-> IF Len(asg[w]) > 0 THEN "capture" ELSE "done"]
           /\ wpos' = [w \in Workers |-> IF Len(asg[w]) > 0 THEN 1 ELSE 0]
           /\ captureCount' = [i \in DOMAIN captureCount |->
                                  IF i \in first THEN captureCount[i] + 1
                                                 ELSE captureCount[i]]
           /\ pages' = [p \in DOMAIN pages |->
                           [pages[p] EXCEPT !.seeks =
                               @ \cup {asg[w][1] : w \in {v \in Workers :
                                           Len(asg[v]) > 0 /\ WorkerPage(v) = p}}]]
    /\ pc' = "awaitWorkers"
    /\ UNCHANGED <<detector, progress, inputs, infra, err, frameBuffer, nextEncodeFrame, encodedCount,
                   enc, appended, failedFrames, firstFail, finalized, fileWritten, thrown>>

\* (mutation of JoinWorkers: Promise.race, the first worker to return
\* resolves the join)
JoinWorkersRace ==
    /\ pc = "awaitWorkers"
    /\ \/ /\ firstFail # "none"
          /\ err' = firstFail
          /\ pc' = "finally"
       \/ /\ firstFail = "none"
          /\ \E w \in Workers : wpc[w] = "done"
          /\ err' = err
          /\ pc' = "drain"
    /\ UNCHANGED <<detector, pages, progress, inputs, infra, workerState, finalized, fileWritten, thrown>>

\* Promise.all settled: it rejects with the first worker rejection, or
\* resolves once every worker returned
JoinWorkers ==
    /\ pc = "awaitWorkers"
    /\ \/ /\ firstFail # "none"
          /\ err' = firstFail
          /\ pc' = "finally"
       \/ /\ firstFail = "none"
          /\ \A w \in Workers : wpc[w] = "done"
          /\ err' = err
          /\ pc' = "drain"
    /\ UNCHANGED <<detector, pages, progress, inputs, infra, workerState, finalized, fileWritten, thrown>>

\* (mutation of MainDrain: the final drain loop is left out)
MainDrainSkipped ==
    /\ pc = "drain"
    /\ pc' = "finalize"
    /\ UNCHANGED <<detector, pages, progress, inputs, infra, err, workerState, finalized, fileWritten, thrown>>

\* while (encodedCount < totalFrames) await processEncodeQueue()
MainDrain ==
    /\ pc = "drain"
    /\ IF encodedCount < totalFrames
       THEN /\ ProcessEncodeQueue(MAIN, frameBuffer)
            /\ pc' = IF Len(Batch(frameBuffer)) > 0 THEN "mainEnc" ELSE "mainRet"
       ELSE /\ pc' = "finalize"
            /\ pages' = Evaluate(pages, EncoderPage, "finalize")
            /\ UNCHANGED <<frameBuffer, enc>>
    /\ UNCHANGED <<detector, progress, inputs, infra, err, frameAssignments, nextEncodeFrame,
                   encodedCount, wpc, wpos, appended, captureCount, failedFrames,
                   firstFail, finalized, fileWritten, thrown>>

\* if (encodedCount < totalFrames) await the 100 ms timer
MainRet ==
    /\ pc = "mainRet"
    /\ pc' = IF encodedCount < totalFrames THEN "mainSleep" ELSE "drain"
    /\ UNCHANGED <<detector, pages, progress, inputs, infra, err, workerState, finalized, fileWritten, thrown>>

MainSleepReturn ==
    /\ pc = "mainSleep"
    /\ pc' = "drain"
    /\ UNCHANGED <<detector, pages, progress, inputs, infra, err, workerState, finalized, fileWritten, thrown>>

\* source.close(), output.finalize() and the base64 transfer returned
FinalizeOK ==
    /\ pc = "finalize"
    /\ finalized' = finalized + 1
    /\ pc' = "write"
    /\ UNCHANGED <<detector, pages, progress, inputs, infra, err, workerState, fileWritten, thrown>>

\* (mutation of FinalizeFail: the exception is swallowed and the buffer written)
FinalizeFailIgnored ==
    /\ pc = "finalize"
    /\ pc' = "write"
    /\ thrown' = thrown \cup {"finalize"}
    /\ UNCHANGED <<detector, pages, progress, inputs, infra, err, workerState, finalized, fileWritten>>

\* source.close() or output.finalize() threw
FinalizeFail ==
    /\ pc = "finalize"
    /\ err' = "finalize"
    /\ pc' = "finally"
    /\ thrown' = thrown \cup {"finalize"}
    /\ UNCHANGED <<detector, pages, progress, inputs, infra, workerState, finalized, fileWritten>>

\* writeFile(output, buffer) returned; return output
WriteOK ==
    /\ pc = "write"
    /\ fileWritten' = fileWritten + 1
    /\ pc' = "finally"
    /\ UNCHANGED <<detector, pages, progress, inputs, infra, err, workerState, finalized, thrown>>

WriteFail ==
    /\ pc = "write"
    /\ err' = "write"
    /\ pc' = "finally"
    /\ thrown' = thrown \cup {"write"}
    /\ UNCHANGED <<detector, pages, progress, inputs, infra, workerState, finalized, fileWritten>>

\* finally: browser.close() returned
BrowserCloseOK ==
    /\ pc = "finally"
    /\ browserClosed' = TRUE
    /\ pc' = "cleanup"
    /\ UNCHANGED <<detector, pages, progress, inputs, err, serverUp, serverCleaned, browserOpen, pagesReady,
                   workerState, finalized, fileWritten, thrown>>

\* finally: browser.close() threw; the exception leaves the finally block
BrowserCloseFail ==
    /\ pc = "finally"
    /\ err' = "close"
    /\ pc' = "rejected"
    /\ thrown' = thrown \cup {"close"}
    /\ UNCHANGED <<detector, pages, progress, inputs, infra, workerState, finalized, fileWritten>>

\* finally: cleanupServer() returned; the job settles
CleanupOK ==
    /\ pc = "cleanup"
    /\ serverCleaned' = TRUE
    /\ pc' = IF err = "none" THEN "resolved" ELSE "rejected"
    /\ UNCHANGED <<detector, pages, progress, inputs, err, serverUp, browserOpen, browserClosed, pagesReady,
                   workerState, finalized, fileWritten, thrown>>

CleanupFail ==
    /\ pc = "cleanup"
    /\ err' = "cleanup"
    /\ pc' = "rejected"
    /\ thrown' = thrown \cup {"cleanup"}
    /\ UNCHANGED <<detector, pages, progress, inputs, infra, workerState, finalized, fileWritten>>

\* ------------------------------------------------------- specifications

\* the steps in which every awaited call returns
NextOK ==
    \/ CreateServerOK
    \/ GpuConfig
    \/ LaunchOK
    \/ NewContext
    \/ SetupPage
    \/ StartWorkers
    \/ JoinWorkers
    \/ MainDrain
    \/ MainRet
    \/ MainSleepReturn
    \/ FinalizeOK
    \/ WriteOK
    \/ BrowserCloseOK
    \/ CleanupOK
    \/ \E c \in Callers : EncodeAppend(c)
    \/ \E c \in Callers : EncodeReturn(c)
    \/ \E w \in Workers : CaptureReturn(w)
    \/ \E w \in Workers : WorkerNext(w)
    \/ \E w \in Workers : SleepReturn(w)
    \/ \E w \in Workers : WaitRecheck(w)

\* the steps in which an awaited call throws
NextFail ==
    \/ CreateServerFail
    \/ LaunchFail
    \/ SetupFail
    \/ FinalizeFail
    \/ WriteFail
    \/ BrowserCloseFail
    \/ CleanupFail
    \/ \E c \in Callers : EncodeFail(c)
    \/ \E w \in Workers : CaptureFail(w)

Next == NextOK \/ NextFail

Spec == Init /\ [][Next]_vars


\* Every awaited call eventually returns: the main flow and every worker (with
\* the encoder call it awaits) keep taking the step that is enabled for them.
MainStep ==
    \/ CreateServerOK \/ GpuConfig \/ LaunchOK \/ NewContext \/ SetupPage
    \/ StartWorkers \/ JoinWorkers \/ MainDrain \/ MainRet \/ MainSleepReturn
    \/ FinalizeOK \/ WriteOK \/ BrowserCloseOK \/ CleanupOK
    \/ EncodeAppend(MAIN) \/ EncodeReturn(MAIN)

WorkerStep(w) ==
    /\ w \in Workers
    /\ \/ CaptureReturn(w) \/ WorkerNext(w) \/ SleepReturn(w) \/ WaitRecheck(w)
       \/ EncodeAppend(w) \/ EncodeReturn(w)

\* the job in which no step fails and every issued call returns
LiveSpec ==
    /\ Init
    /\ [][NextOK]_vars
    /\ WF_vars(MainStep)
    /\ \A w \in 0 .. (MaxWorkers - 1) : WF_vars(WorkerStep(w))

\* a step of the main flow, returning or throwing
MainRun ==
    \/ MainStep
    \/ CreateServerFail \/ LaunchFail \/ SetupFail \/ FinalizeFail \/ WriteFail
    \/ BrowserCloseFail \/ CleanupFail \/ EncodeFail(MAIN)

\* a step of worker w, returning or throwing
WorkerRun(w) == WorkerStep(w) \/ (w \in Workers /\ (CaptureFail(w) \/ EncodeFail(w)))

\* the job in which awaited calls may throw and every issued call eventually
\* returns or throws: timers fire and the event loop runs every continuation
\* that is ready
SettleSpec ==
    /\ Init
    /\ [][Next]_vars
    /\ WF_vars(MainRun)
    /\ \A w \in 0 .. (MaxWorkers - 1) : WF_vars(WorkerRun(w))

\* ===================================== GPU capability detector: the calls

\* the options offered for preferBackend and --gpu-backend: the first and a
\* later candidate of the list, and the documented value that is none of them
PreferChoices == {"vulkan", "desktop", "software"}

\* profiles an earlier process may have left in the cache file
EarlierProfiles == {Profile(Backends[1], TRUE), Profile(Backends[3], TRUE), SoftwareConfig}

\* the render job before its first step, with options that play no part here
JobAtRest ==
    /\ numWorkers = 1
    /\ fps = 0
    /\ durNum = 1
    /\ totalFrames = 0
    /\ pc = "createServer"
    /\ err = "none"
    /\ serverUp = FALSE
    /\ serverCleaned = FALSE
    /\ browserOpen = FALSE
    /\ browserClosed = FALSE
    /\ pagesReady = 0
    /\ frameAssignments = [w \in Workers |-> <<>>]
    /\ frameBuffer = [k \in {} |-> 0]
    /\ nextEncodeFrame = 0
    /\ encodedCount = 0
    /\ wpc = [w \in Workers |-> "idle"]
    /\ wpos = [w \in Workers |-> 0]
    /\ enc = [c \in Callers |-> Idle]
    /\ appended = <<>>
    /\ captureCount = [i \in {} |-> 0]
    /\ failedFrames = {}
    /\ firstFail = "none"
    /\ finalized = 0
    /\ fileWritten = 0
    /\ thrown = {}
    /\ progress = <<>>
    /\ pages = [k \in {} |-> 0]

\* a process starts: the cache file is whatever earlier processes left (nothing,
\* garbage, or an entry of any age), and the process is either a command line
\* run with some --gpu-backend or a consumer of the library ("none")
DetectInit ==
    /\ JobAtRest
    /\ DetectorAtRest
    /\ OptimizedAtRest
    /\ cacheFile \in {MissingFile, CorruptFile}
                     \cup {ValidFile(t, c) : t \in (0 - CACHE_TTL) .. 0, c \in EarlierProfiles}
    /\ gpuBackend \in {"none", "auto"} \cup PreferChoices
    /\ cliStep = IF gpuBackend = "none" THEN "api" ELSE "start"

\* (mutation of Consults: forceDetect is not honoured)
ConsultsAlways(force) == TRUE

\* (mutation of Consults: the caches are never consulted)
ConsultsNever(force) == FALSE

\* if (!forceDetect ...): whether the call consults the caches
Consults(force) == ~force

\* (mutation of FirstProbe: the preference is not honoured)
FirstProbeInListOrder(prefer) == [dpc |-> "loop", idx |-> 1, name |-> Backends[1].name]

\* where probing starts: at the preferred backend if backends.find knows it,
\* else at the head of the candidate loop
FirstProbe(prefer) ==
    IF Find(prefer) > 0
    THEN [dpc |-> "prefer", idx |-> 0, name |-> prefer]
    ELSE [dpc |-> "loop", idx |-> 1, name |-> Backends[1].name]

\* (mutation of NextCandidate: the loop skips every other candidate)
NextCandidateSkipping(i) == i + 2

\* for (const backend of backends): the candidate after candidate i
NextCandidate(i) == i + 1

\* detectBestGPUConfig({ forceDetect: force, preferBackend: prefer }) is
\* called by who: the segment up to its first await (or its return from the
\* in-memory cache)
Detect(force, prefer, who) ==
    /\ dpc = "idle"
    /\ forceDetect' = force
    /\ preferBackend' = prefer
    /\ caller' = who
    /\ atCall' = [mem |-> cachedConfig, age |-> now - memStamp]
    /\ atLoad' = [file |-> MissingFile, now |-> 0]
    /\ reports' = <<>>
    /\ lastOutcome' = "none"
    /\ lastRenderer' = <<>>
    /\ saved' = "none"
    /\ config' = NullConfig
    /\ stamp' = 0
    /\ IF Consults(force) /\ cachedConfig # NullConfig
       THEN /\ dpc' = "returned"
            /\ result' = cachedConfig
            /\ hit' = "memory"
            /\ idx' = 0
            /\ probed' = <<>>
       ELSE IF Consults(force)
       THEN /\ dpc' = "load"
            /\ result' = NullConfig
            /\ hit' = "none"
            /\ idx' = 0
            /\ probed' = <<>>
       ELSE LET first == FirstProbe(prefer)
            IN  /\ dpc' = first.dpc
                /\ result' = NullConfig
                /\ hit' = "none"
                /\ idx' = first.idx
                /\ probed' = <<first.name>>
    /\ UNCHANGED <<cachedConfig, cacheFile, now, memStamp>>

\* loadCachedConfig returns: a fresh entry is kept in memory and returned, else
\* probing starts
LoadReturn ==
    /\ dpc = "load"
    /\ atLoad' = [file |-> cacheFile, now |-> now]
    /\ LET cached == LoadCachedConfig(cacheFile, now)
       IN  IF cached # NullConfig
           THEN /\ cachedConfig' = cached
                /\ memStamp' = cacheFile.timestamp
                /\ result' = cached
                /\ hit' = "file"
                /\ dpc' = "returned"
                /\ UNCHANGED <<idx, probed>>
           ELSE LET first == FirstProbe(preferBackend)
                IN  /\ dpc' = first.dpc
                    /\ idx' = first.idx
                    /\ probed' = <<first.name>>
                    /\ UNCHANGED <<cachedConfig, memStamp, result, hit>>
    /\ UNCHANGED <<job, cacheFile, now, forceDetect, preferBackend, caller, config, stamp,
                   calls, gpuBackend, cliStep, reported, launchConfig, reports,
                   lastOutcome, lastRenderer, saved, atCall>>

\* the probe of the preferred backend returns: hardware acceleration ends the
\* detection, anything else enters the candidate loop at its head
PreferredProbeReturn ==
    /\ dpc = "prefer"
    /\ \E outcome \in ProbeOutcomes :
          LET r == TestGPUBackend(outcome)
              preferred == Backends[Find(preferBackend)]
          IN  /\ lastOutcome' = outcome
              /\ lastRenderer' \in Reported(outcome)
              /\ reports' = Append(reports, r.isHardwareAccelerated)
              /\ IF r.threw
                 THEN /\ dpc' = "threw"
                      /\ UNCHANGED <<cachedConfig, memStamp, config, stamp, idx, probed>>
                 ELSE IF r.isHardwareAccelerated
                 THEN /\ config' = Profile(preferred, TRUE)
                      /\ cachedConfig' = config'
                      /\ memStamp' = now
                      /\ stamp' = now
                      /\ dpc' = "save"
                      /\ UNCHANGED <<idx, probed>>
                 ELSE /\ dpc' = "loop"
                      /\ idx' = 1
                      /\ probed' = Append(probed, Backends[1].name)
                      /\ UNCHANGED <<cachedConfig, memStamp, config, stamp>>
    /\ UNCHANGED <<job, cacheFile, now, forceDetect, preferBackend, caller, result, calls,
                   gpuBackend, cliStep, reported, launchConfig, saved, hit, atCall, atLoad>>

\* the probe of the loop's candidate returns: hardware acceleration ends the
\* detection, anything else moves on to the next candidate or, after the
\* last one, to the software fallback
LoopProbeReturn ==
    /\ dpc = "loop"
    /\ \E outcome \in ProbeOutcomes :
          LET r == TestGPUBackend(outcome)
          IN  /\ lastOutcome' = outcome
              /\ lastRenderer' \in Reported(outcome)
              /\ reports' = Append(reports, r.isHardwareAccelerated)
              /\ IF r.threw
                 THEN /\ dpc' = "threw"
                      /\ UNCHANGED <<cachedConfig, memStamp, config, stamp, idx, probed>>
                 ELSE IF r.isHardwareAccelerated
                 THEN /\ config' = Profile(Backends[idx], TRUE)
                      /\ cachedConfig' = config'
                      /\ memStamp' = now
                      /\ stamp' = now
                      /\ dpc' = "save"
                      /\ UNCHANGED <<idx, probed>>
                 ELSE IF NextCandidate(idx) <= Len(Backends)
                 THEN /\ idx' = NextCandidate(idx)
                      /\ probed' = Append(probed, Backends[idx'].name)
                      /\ UNCHANGED <<dpc, cachedConfig, memStamp, config, stamp>>
                 ELSE /\ config' = Profile(SOFTWARE_FALLBACK, FALSE)
                      /\ cachedConfig' = config'
                      /\ memStamp' = now
                      /\ stamp' = now
                      /\ dpc' = "save"
                      /\ UNCHANGED <<idx, probed>>
    /\ UNCHANGED <<job, cacheFile, now, forceDetect, preferBackend, caller, result, calls,
                   gpuBackend, cliStep, reported, launchConfig, saved, hit, atCall, atLoad>>

\* (mutation of SaveReturn: a failed write rejects the call)
SaveReturnUncaught ==
    /\ dpc = "save"
    /\ \E written \in {"ok", "failed", "partial"} :
          /\ cacheFile' = SaveCachedConfig(cacheFile, config, stamp, written)
          /\ saved' = written
          /\ dpc' = IF written = "ok" THEN "returned" ELSE "threw"
          /\ result' = IF written = "ok" THEN config ELSE result
    /\ UNCHANGED <<job, cachedConfig, now, forceDetect, preferBackend, caller, idx, config,
                   stamp, calls, gpuBackend, cliStep, reported, launchConfig, probed,
                   reports, lastOutcome, lastRenderer, hit, memStamp, atCall, atLoad>>

\* saveCachedConfig returns, whether or not the file was written, and the
\* call returns its profile
SaveReturn ==
    /\ dpc = "save"
    /\ \E written \in {"ok", "failed", "partial"} :
          /\ cacheFile' = SaveCachedConfig(cacheFile, config, stamp, written)
          /\ saved' = written
    /\ result' = config
    /\ dpc' = "returned"
    /\ UNCHANGED <<job, cachedConfig, now, forceDetect, preferBackend, caller, idx, config,
                   stamp, calls, gpuBackend, cliStep, reported, launchConfig, probed,
                   reports, lastOutcome, lastRenderer, hit, memStamp, atCall, atLoad>>

\* clearGPUCache: the in-memory cache is dropped and the file unlinked, if it
\* can be
ClearGPUCache ==
    /\ cachedConfig' = NullConfig
    /\ memStamp' = 0
    /\ \E unlinked \in BOOLEAN :
          cacheFile' = IF unlinked THEN MissingFile ELSE cacheFile

\* time passes; the clock is read by the cache check at the head of a call and
\* by the segment that ends the probing, so time that passes inside a call
\* shows no differently from time that passes before it
Tick ==
    /\ dpc = "idle"
    /\ now < MaxTime
    /\ now' = now + 1
    /\ UNCHANGED <<job, cachedConfig, cacheFile, dpc, forceDetect, preferBackend, caller,
                   idx, config, stamp, result, calls, gpuBackend, cliStep, reported,
                   launchConfig, probed, reports, lastOutcome, lastRenderer, saved, hit, memStamp,
                   atCall, atLoad>>

\* a consumer of the library calls detectBestGPUConfig with options of its
\* choice (a render job's getOptimalChromiumConfig() is the call without any)
ApiCall ==
    /\ gpuBackend = "none"
    /\ calls < MaxCalls
    /\ calls' = calls + 1
    /\ \E force \in BOOLEAN, prefer \in {"none"} \cup PreferChoices :
          Detect(force, prefer, "api")
    /\ UNCHANGED <<job, gpuBackend, cliStep, reported, launchConfig>>

\* the call is over: its options, locals and return value are gone
CallOver ==
    /\ dpc' = "idle"
    /\ forceDetect' = FALSE
    /\ preferBackend' = "none"
    /\ idx' = 0
    /\ config' = NullConfig
    /\ stamp' = 0
    /\ probed' = <<>>
    /\ reports' = <<>>
    /\ lastOutcome' = "none"
    /\ lastRenderer' = <<>>
    /\ saved' = "none"
    /\ hit' = "none"
    /\ atCall' = [mem |-> NullConfig, age |-> 0]
    /\ atLoad' = [file |-> MissingFile, now |-> 0]
    /\ result' = NullConfig
    /\ UNCHANGED <<cachedConfig, cacheFile, now, caller, memStamp>>

\* the consumer's call has returned
ApiReturn ==
    /\ dpc = "returned"
    /\ caller = "api"
    /\ CallOver
    /\ UNCHANGED <<job, calls, gpuBackend, cliStep, reported, launchConfig>>

\* a consumer of the library calls clearGPUCache
ApiClear ==
    /\ gpuBackend = "none"
    /\ dpc = "idle"
    /\ ClearGPUCache
    /\ UNCHANGED <<job, now, dpc, forceDetect, preferBackend, caller, idx, config, stamp,
                   result, calls, gpuBackend, cliStep, reported, launchConfig, probed,
                   reports, lastOutcome, lastRenderer, saved, hit, atCall, atLoad>>

\* command line: if (gpuBackend !== 'auto') await clearGPUCache()
CliClearCache ==
    /\ cliStep = "start"
    /\ gpuBackend # "auto"
    /\ ClearGPUCache
    /\ cliStep' = "detect"
    /\ UNCHANGED <<job, now, dpc, forceDetect, preferBackend, caller, idx, config, stamp,
                   result, calls, gpuBackend, reported, launchConfig, probed, reports,
                   lastOutcome, lastRenderer, saved, hit, atCall, atLoad>>

\* command line: detectBestGPUConfig({ preferBackend }) is called, with the
\* option undefined for --gpu-backend auto
CliDetect ==
    /\ \/ cliStep = "detect"
       \/ cliStep = "start" /\ gpuBackend = "auto"
    /\ Detect(FALSE, IF gpuBackend # "auto" THEN gpuBackend ELSE "none", "cli")
    /\ cliStep' = "report"
    /\ UNCHANGED <<job, calls, gpuBackend, reported, launchConfig>>

\* command line: the profile returned is printed
CliReport ==
    /\ dpc = "returned"
    /\ caller = "cli"
    /\ reported' = result
    /\ CallOver
    /\ cliStep' = "render"
    /\ UNCHANGED <<job, calls, gpuBackend, launchConfig>>

\* the render function the command line runs calls getOptimalChromiumConfig()
\* (backend 'auto'), which calls detectBestGPUConfig() without options
RendererConfig ==
    /\ cliStep = "render"
    /\ Detect(FALSE, "none", "renderer")
    /\ cliStep' = "launch"
    /\ UNCHANGED <<job, calls, gpuBackend, reported, launchConfig>>

\* getOptimalChromiumConfig returns the launch configuration to the renderer
RendererLaunch ==
    /\ dpc = "returned"
    /\ caller = "renderer"
    /\ launchConfig' = ChromiumConfig(result)
    /\ CallOver
    /\ cliStep' = "done"
    /\ UNCHANGED <<job, calls, gpuBackend, reported>>

DetectNext ==
    \/ ApiCall
    \/ ApiReturn
    \/ ApiClear
    \/ CliClearCache
    \/ CliDetect
    \/ CliReport
    \/ RendererConfig
    \/ RendererLaunch
    \/ LoadReturn
    \/ PreferredProbeReturn
    \/ LoopProbeReturn
    \/ SaveReturn
    \/ Tick

\* a process that uses the detector, as the command line or as a library
DetectSpec == DetectInit /\ [][DetectNext]_vars

\* ------------------------------------------------ frameBuffer.set alone
\* The Map operation runWorker stores a frame with, applied to any buffer,
\* index and payload.

\* the payloads a capture may store under index i
Payloads(i) == {CaptureFrameJPEG(i, f) : f \in FpsChoices \ {0}}

\* any buffer over the frames of a one-worker job at 2 fps
InsertInit ==
    /\ numWorkers = 1
    /\ fps = 2
    /\ durNum \in 1 .. MaxDurNum
    /\ totalFrames = TotalFrames(durNum, fps)
    /\ pc = "awaitWorkers"
    /\ err = "none"
    /\ serverUp = TRUE
    /\ serverCleaned = FALSE
    /\ browserOpen = TRUE
    /\ browserClosed = FALSE
    /\ pagesReady = numWorkers + 1
    /\ frameAssignments = FrameAssignments(totalFrames, numWorkers)
    /\ \E present \in SUBSET (0 .. (totalFrames - 1)) :
          \E rate \in [present -> FpsChoices \ {0}] :
              frameBuffer = [i \in present |-> CaptureFrameJPEG(i, rate[i])]
    /\ nextEncodeFrame = 0
    /\ encodedCount = 0
    /\ wpc = [w \in Workers |-> "idle"]
    /\ wpos = [w \in Workers |-> 0]
    /\ enc = [c \in Callers |-> Idle]
    /\ appended = <<>>
    /\ captureCount = [i \in 0 .. (totalFrames - 1) |-> 0]
    /\ failedFrames = {}
    /\ firstFail = "none"
    /\ finalized = 0
    /\ fileWritten = 0
    /\ thrown = {}
    /\ progress = <<>>
    /\ pages = Evaluate(Push(Push([k \in {} |-> 0], NewPage(0)), NewPage(1)),
                        EncoderPage, "init")
    /\ DetectorAtRest
    /\ OptimizedAtRest
    /\ cacheFile = MissingFile
    /\ gpuBackend = "none"
    /\ cliStep = "api"

\* frameBuffer.set(frameIndex, dataUrl): Map.prototype.set stores the value
\* under the key whether or not the key is present, and does not throw
FrameBufferSet ==
    /\ \E i \in 0 .. (totalFrames - 1) :
          \E dataUrl \in Payloads(i) :
              frameBuffer' = MapSet(frameBuffer, i, dataUrl)
    /\ UNCHANGED <<detector, pages, progress, inputs, infra, pc, err, frameAssignments,
                   nextEncodeFrame, encodedCount, wpc, wpos, enc, appended,
                   captureCount, failedFrames, firstFail, finalized, fileWritten,
                   thrown>>

InsertSpec == InsertInit /\ [][FrameBufferSet]_vars

\* ------------------------------- renderToMp4Optimized: the frame loop

\* the batch sizes tried: from 1 to beyond the largest frame count
BatchSizes == 1 .. (MaxDurNum + 1)

\* the state when the encoder is initialised and the batch loop is about to
\* start, for any duration, frame rate and batch size
OptInit ==
    /\ numWorkers = 1
    /\ fps \in FpsChoices \ {0}
    /\ durNum \in 1 .. MaxDurNum
    /\ totalFrames = TotalFrames(durNum, fps)
    /\ pc = "createServer"
    /\ err = "none"
    /\ serverUp = FALSE
    /\ serverCleaned = FALSE
    /\ browserOpen = FALSE
    /\ browserClosed = FALSE
    /\ pagesReady = 0
    /\ frameAssignments = [w \in Workers |-> <<>>]
    /\ frameBuffer = [k \in {} |-> 0]
    /\ nextEncodeFrame = 0
    /\ encodedCount = 0
    /\ wpc = [w \in Workers |-> "idle"]
    /\ wpos = [w \in Workers |-> 0]
    /\ enc = [c \in Callers |-> Idle]
    /\ appended = <<>>
    /\ captureCount = [i \in {} |-> 0]
    /\ failedFrames = {}
    /\ firstFail = "none"
    /\ finalized = 0
    /\ fileWritten = 0
    /\ thrown = {}
    /\ progress = <<>>
    /\ pages = [k \in {} |-> 0]
    /\ DetectorAtRest
    /\ cacheFile = MissingFile
    /\ gpuBackend = "none"
    /\ cliStep = "api"
    /\ batchSize \in BatchSizes
    /\ batchIndex = 0
    /\ frame = 0
    /\ opc = "start"
    /\ sought = <<>>
    /\ encoded = <<>>
    /\ optProgress = <<>>

Min(a, b) == IF a <= b THEN a ELSE b

\* const totalBatches = Math.ceil(totalFrames / batchSize)
TotalBatches(total, size) == CeilDiv(total, size)

\* const batchStart = batchIndex * batchSize
BatchStart(index, size) == index * size

\* (mutation of BatchEnd: the end of the batch is not clamped)
BatchEndUnclamped(index, size, total) == BatchStart(index, size) + size

\* const batchEnd = Math.min(batchStart + batchSize, totalFrames)
BatchEnd(index, size, total) == Min(BatchStart(index, size) + size, total)

\* The two loop heads, run from batch index b with frame f about to be
\* tested against batchEnd: the iteration that is entered next, or the exit of
\* the batch loop
RECURSIVE Enter(_, _)
Enter(b, f) ==
    IF b >= TotalBatches(totalFrames, batchSize)
    THEN [exit |-> TRUE, batchIndex |-> b, frame |-> f]
    ELSE IF f < BatchEnd(b, batchSize, totalFrames)
    THEN [exit |-> FALSE, batchIndex |-> b, frame |-> f]
    ELSE Enter(b + 1, BatchStart(b + 1, batchSize))

\* control reaches the loop heads at (b, f): either the next iteration starts
\* and calls window.__VUESEQ_SEEK__(frame / fps), or the loops are over
Iterate(b, f) ==
    LET next == Enter(b, f)
    IN  /\ batchIndex' = next.batchIndex
        /\ frame' = next.frame
        /\ IF next.exit
           THEN opc' = "done" /\ sought' = sought
           ELSE opc' = "seek" /\ sought' = Append(sought, Timestamp(next.frame, fps))

\* for (let batchIndex = 0; ...) { ... for (let frame = batchStart; ...)
OptStart ==
    /\ opc = "start"
    /\ Iterate(0, BatchStart(0, batchSize))
    /\ UNCHANGED <<parallel, detector, batchSize, encoded, optProgress>>

\* the seek returned: captureAndEncodeFrame(page, timeInSeconds, fps) is called
OptSeekReturn ==
    /\ opc = "seek"
    /\ opc' = "capture"
    /\ UNCHANGED <<parallel, detector, batchSize, batchIndex, frame, sought, encoded,
                   optProgress>>

\* captureAndEncodeFrame returned: onProgress, frame++ and the loop heads
OptCaptureReturn ==
    /\ opc = "capture"
    /\ encoded' = Append(encoded, [frame |-> frame, timestamp |-> Timestamp(frame, fps)])
    /\ optProgress' = << [frame |-> frame,
                          total |-> totalFrames,
                          percent |-> Percent(frame + 1, totalFrames)] >>
    /\ Iterate(batchIndex, frame + 1)
    /\ UNCHANGED <<parallel, detector, batchSize>>

\* the seek or captureAndEncodeFrame threw: the exception leaves the loops
OptCallFails ==
    /\ opc \in {"seek", "capture"}
    /\ opc' = "failed"
    /\ UNCHANGED <<parallel, detector, batchSize, batchIndex, frame, sought, encoded,
                   optProgress>>

OptNext == OptStart \/ OptSeekReturn \/ OptCaptureReturn \/ OptCallFails

\* every page.evaluate of the loop returns or throws
OptSpec == OptInit /\ [][OptNext]_vars /\ WF_vars(OptNext)

\* ================================================================ claims

Started == \A w \in Workers : wpc[w] # "idle"

Indices(seq) == {seq[k] : k \in 1 .. Len(seq)}

Unfinished(w) == wpc[w] \in {"capture", "encIns", "retIns", "sleep", "encWait", "retWait"}

\* C1: the frames handed to the encoder are 0, 1, 2, ... in this order: index K
\* is never appended before K-1 and no index is appended twice, whatever the
\* interleaving of captures, inserts and processEncodeQueue calls.
C1_EncoderSeesFramesInOrder ==
    \A k \in 1 .. Len(appended) : appended[k].index = k - 1

\* C1 witness: a worker's processEncodeQueue call returned empty-handed while
\* another caller's batch was still awaiting the encoder, and frames that
\* arrived out of order were appended.
C1_Witness ==
    /\ Len(appended) >= 3
    /\ \E c \in Callers : enc[c].active /\ enc[c].todo # <<>>
    /\ \E w \in Workers : wpc[w] = "retIns" /\ CurrentFrame(w) \in DOMAIN frameBuffer

\* C2 (as claimed): in a job where nothing fails and every call returns, the
\* job eventually has encodedCount = totalFrames, finalizes and resolves.
C2_EventuallyFinalizes ==
    <>(encodedCount = totalFrames /\ finalized = 1 /\ pc = "resolved")

\* C3: a successful job delivered exactly totalFrames = ceil(duration * fps)
\* appends, the i-th (from 0) at timestamp i / fps with duration 1 / fps.
C3_SuccessfulJobAppendsEveryFrameOnce ==
    pc = "resolved" =>
        /\ totalFrames * 2 >= durNum * fps
        /\ (totalFrames - 1) * 2 < durNum * fps
        /\ Len(appended) = totalFrames
        /\ \A i \in 0 .. (totalFrames - 1) :
              /\ appended[i + 1].timestamp = <<i, fps>>
              /\ appended[i + 1].duration = <<1, fps>>

\* C3 witness: a resolved 2-worker job whose frame count was rounded up
C3_Witness ==
    /\ pc = "resolved"
    /\ numWorkers = 2
    /\ totalFrames >= 4
    /\ totalFrames * 2 > durNum * fps

\* C4 (as claimed): while a worker has not finished its frames, frameBuffer
\* holds at most MAX_BUFFERED_FRAMES frames.
C4_BufferWithinCapacity ==
    (\E w \in Workers : Unfinished(w)) => Size(frameBuffer) <= MAX_BUFFERED_FRAMES

\* the run of the job with one worker: capture i, insert it, drain it
RECURSIVE SingleWorkerOutput(_, _, _, _)
SingleWorkerOutput(i, n, f, out) ==
    IF i >= n THEN out
    ELSE SingleWorkerOutput(i + 1, n, f,
             Append(out, [index |-> i,
                          image |-> [seek |-> <<i, f>>],
                          timestamp |-> <<i, f>>,
                          duration |-> <<1, f>>]))

\* C5: the appends (frame, image, timestamp) of a successful job are those of
\* the one-worker job on the same input, for every worker count and schedule.
C5_OutputIndependentOfWorkerCount ==
    pc = "resolved" => appended = SingleWorkerOutput(0, totalFrames, fps, <<>>)

\* C5 witness: a resolved job with two workers and an odd number of frames
C5_Witness ==
    /\ pc = "resolved"
    /\ numWorkers = 2
    /\ totalFrames = 7

\* C6: frameAssignments is a partition of [0, totalFrames): frame i is in the
\* list of worker i mod W and in no other, nothing else is in any list, and
\* every list is strictly ascending.
C6_AssignmentIsPartition ==
    Started =>
        /\ \A i \in 0 .. (totalFrames - 1) :
              \A w \in Workers :
                  (i \in Indices(frameAssignments[w])) <=> (w = i % numWorkers)
        /\ \A w \in Workers :
              /\ Indices(frameAssignments[w]) \subseteq 0 .. (totalFrames - 1)
              /\ \A k \in 1 .. (Len(frameAssignments[w]) - 1) :
                    frameAssignments[w][k] < frameAssignments[w][k + 1]

\* C6 witness: an uneven partition (7 frames over 2 workers) has been built
C6_Witness ==
    /\ Started
    /\ numWorkers = 2
    /\ totalFrames = 7
    /\ frameAssignments[0] = <<0, 2, 4, 6>>
    /\ frameAssignments[1] = <<1, 3, 5>>

\* C7 (as claimed): when a step inside the try block (setup, capture, encode,
\* finalize) failed, the browser is closed and the server is cleaned up before
\* the rejection is delivered.
C7_TeardownBeforeRejection ==
    (pc = "rejected" /\ thrown \cap {"setup", "capture", "encode", "finalize"} # {})
        => (browserClosed /\ serverCleaned)

\* C8 (as claimed): once the server was started, it is cleaned up on every
\* exit path of the job.
C8_ServerCleanedOnEveryExit ==
    (pc \in {"resolved", "rejected"} /\ serverUp) => serverCleaned

\* C9: after a capture threw, the failed frame is never requested again, the
\* job never drains, finalizes, writes or resolves, and the worker's failure
\* is what the main flow carries into the finally block: the job rejects.
C9_CaptureFailureIsFatal ==
    failedFrames # {} =>
        /\ \A i \in failedFrames : captureCount[i] = 1
        /\ pc \in {"awaitWorkers", "finally", "cleanup", "rejected"}
        /\ finalized = 0
        /\ fileWritten = 0
        /\ firstFail # "none"
        /\ pc \in {"finally", "cleanup"} => err = firstFail
        /\ pc = "rejected" => err \in {firstFail, "close", "cleanup"}

\* C9 witness: a capture threw and the job has been rejected with that error
\* while another worker had gone on capturing
C9_Witness ==
    /\ failedFrames # {}
    /\ pc = "rejected"
    /\ err = "capture"
    /\ \E i \in 0 .. (totalFrames - 1) : i \notin failedFrames /\ captureCount[i] = 1
    /\ Len(appended) >= 1

\* C10: the output file is written only after all totalFrames frames were
\* appended and finalize returned; after a capture, encode or finalize
\* failure it is never written.
C10_NoPartialOutput ==
    /\ fileWritten > 0 =>
          /\ fileWritten = 1
          /\ finalized = 1
          /\ encodedCount = totalFrames
          /\ Len(appended) = totalFrames
          /\ \A c \in Callers : ~enc[c].active
    /\ thrown \cap {"capture", "encode", "finalize"} # {} => fileWritten = 0

\* C10 witness: the file of a job with frames has been written
C10_Witness ==
    /\ fileWritten = 1
    /\ totalFrames >= 4
    /\ numWorkers >= 2


\* the finalize call has been issued (it is awaited, has returned or has thrown)
FinalizeStarted == pc = "finalize" \/ finalized > 0 \/ "finalize" \in thrown

\* C11: the container is finalized at most once; from the moment finalize is
\* issued on, encodedCount = totalFrames, every worker task has returned, all
\* totalFrames appends lie behind and no batch is in flight on the encoder.
C11_FinalizeOnceAfterAllAppends ==
    /\ finalized <= 1
    /\ FinalizeStarted =>
          /\ encodedCount = totalFrames
          /\ nextEncodeFrame = totalFrames
          /\ \A w \in Workers : wpc[w] = "done"
          /\ \A c \in Callers : ~enc[c].active
          /\ Len(appended) = totalFrames
          /\ frameBuffer = [k \in {} |-> 0]

\* C11 witness: finalize is being awaited in a 2-worker job of 6 frames or more
C11_Witness ==
    /\ pc = "finalize"
    /\ numWorkers = 2
    /\ totalFrames >= 6

\* C12: at most one non-empty batch is in flight on the encoder, and what is
\* left of it are the next frames to append, consecutive and ascending.
C12_OneBatchInFlight ==
    /\ Cardinality({c \in Callers : enc[c].active}) <= 1
    /\ \A c \in Callers :
          enc[c].active =>
              /\ enc[c].len >= 1
              /\ enc[c].len <= ENCODE_BATCH_SIZE
              /\ enc[c].lookahead = nextEncodeFrame + enc[c].len
              /\ Len(appended) + Len(enc[c].todo) = enc[c].lookahead
              /\ \A k \in 1 .. Len(enc[c].todo) :
                    enc[c].todo[k].index = Len(appended) + k - 1

\* C12 witness: a two-frame batch is half appended while the other worker's
\* processEncodeQueue call has come back empty-handed
C12_Witness ==
    \E c \in Workers :
        /\ enc[c].active
        /\ enc[c].len = 2
        /\ Len(enc[c].todo) = 1
        /\ \E w \in Workers \ {c} :
              wpc[w] = "retIns" /\ CurrentFrame(w) \in DOMAIN frameBuffer


\* ------------------------------------------------- GPU capability detector

\* the probes made by the candidate loop of the current call
LoopProbed == IF Find(preferBackend) > 0 /\ probed # <<>> THEN Tail(probed) ELSE probed

\* a probe of the current call has reported hardware acceleration
SomeReport == \E k \in 1 .. Len(reports) : reports[k]

\* a probe of the current call is in flight
Probing == dpc \in {"prefer", "loop"}

\* the current call has probed and has built its profile
Decided == dpc \in {"save", "returned"} /\ probed # <<>>

\* C13: the loop probes the candidates in list order without a gap; the first
\* probe that reports hardware acceleration ends the probing (no candidate is
\* probed after it), its backend's profile is what the call returns and what
\* it writes to the in-memory cache and, with a cache write that is best
\* effort, to the cache file.
C13_FirstHardwareCandidateWins ==
    /\ \A k \in 1 .. Len(LoopProbed) : LoopProbed[k] = Backends[k].name
    /\ \A k \in 1 .. Len(reports) : reports[k] => k = Len(probed)
    /\ Probing => Len(probed) = Len(reports) + 1
    /\ (Decided /\ SomeReport) =>
          /\ config = Profile(Backends[Find(probed[Len(probed)])], TRUE)
          /\ cachedConfig = config
          /\ stamp = memStamp
    /\ (dpc = "returned" /\ SomeReport) =>
          /\ result = config
          /\ saved # "none"
          /\ saved = "ok" => cacheFile = ValidFile(stamp, result)

\* C13 witness: the first two candidates failed, the third reported hardware
\* acceleration, was returned and is in both caches
C13_Witness ==
    /\ dpc = "returned"
    /\ preferBackend = "none"
    /\ probed = <<"vulkan", "egl", "desktop">>
    /\ reports = <<FALSE, FALSE, TRUE>>
    /\ result = Profile(Backends[3], TRUE)
    /\ cachedConfig = result
    /\ cacheFile = ValidFile(now, result)

\* C14: a call with forceDetect false that finds a profile cached less than
\* CACHE_TTL ago, in memory or (memory being empty) in the file, returns that
\* very profile and probes nothing.
C14_FreshCacheIsReturned ==
    /\ (dpc # "idle" /\ ~forceDetect /\ atCall.mem # NullConfig /\ atCall.age < CACHE_TTL) =>
          /\ dpc = "returned"
          /\ hit = "memory"
          /\ result = atCall.mem
          /\ probed = <<>>
    /\ (dpc \notin {"idle", "load"} /\ ~forceDetect /\ atCall.mem = NullConfig
           /\ atLoad.file.state = "valid"
           /\ atLoad.now - atLoad.file.timestamp < CACHE_TTL) =>
          /\ dpc = "returned"
          /\ hit = "file"
          /\ result = atLoad.file.config
          /\ cachedConfig = result
          /\ probed = <<>>

\* C14 witness: a hardware profile one clock unit short of CACHE_TTL was read
\* from the file and returned
C14_Witness ==
    /\ dpc = "returned"
    /\ hit = "file"
    /\ atLoad.now - atLoad.file.timestamp = CACHE_TTL - 1
    /\ result.isHardwareAccelerated
    /\ result = atLoad.file.config

\* C15: a cached profile answers a call only while now - timestamp < CACHE_TTL,
\* whether it is held in memory or in the file (an older one is probed anew).
C15_CachedProfileExpires ==
    dpc = "returned" =>
        /\ hit = "memory" => atCall.age < CACHE_TTL
        /\ hit = "file" => atLoad.now - atLoad.file.timestamp < CACHE_TTL

\* C16: a call with forceDetect true consults neither cache and probes; what
\* its probes yield replaces the in-memory cache and is written to the cache
\* file, the software fallback when no probe reported hardware acceleration
\* included.
C16_ForcedDetectionOverwrites ==
    (dpc # "idle" /\ forceDetect) =>
        /\ hit = "none"
        /\ atLoad.file = MissingFile
        /\ probed # <<>>
        /\ Decided =>
              /\ cachedConfig = config
              /\ config.isHardwareAccelerated = SomeReport
              /\ ~SomeReport => config.backend = "software"
        /\ dpc = "returned" =>
              /\ result = config
              /\ saved # "none"
              /\ saved = "ok" => cacheFile = ValidFile(stamp, result)

\* C16 witness: a hardware profile was cached, a forced call's probes all
\* failed, and the software fallback is now in both caches and returned
C16_Witness ==
    /\ dpc = "returned"
    /\ forceDetect
    /\ atCall.mem.isHardwareAccelerated
    /\ ~SomeReport
    /\ result.backend = "software"
    /\ cachedConfig = result
    /\ cacheFile.state = "valid"
    /\ cacheFile.config = result

\* C17: the call never throws; it returns a profile, and a call that probed
\* returns the software fallback exactly when none of its probes reported
\* hardware acceleration (a profile is the software fallback exactly when it
\* is not hardware accelerated).
C17_DetectionNeverThrows ==
    /\ dpc # "threw"
    /\ dpc = "returned" =>
          /\ result # NullConfig
          /\ result.backend = "software" <=> ~result.isHardwareAccelerated
          /\ probed # <<>> => (result.backend = "software" <=> ~SomeReport)

\* C17 witness: the cache file was corrupt, every probe failed, the cache
\* write failed, and the call returned the software fallback
C17_Witness ==
    /\ dpc = "returned"
    /\ atLoad.file = CorruptFile
    /\ Len(reports) = Len(Backends)
    /\ ~SomeReport
    /\ saved = "failed"
    /\ result.backend = "software"

\* C18: when the call probes and preferBackend names a candidate, that
\* candidate is probed first; if it reports hardware acceleration nothing
\* else is probed and its profile is cached and returned.
C18_PreferredBackendFirst ==
    (Find(preferBackend) > 0 /\ probed # <<>>) =>
        /\ probed[1] = preferBackend
        /\ (reports # <<>> /\ reports[1]) =>
              /\ probed = <<preferBackend>>
              /\ dpc \in {"save", "returned"}
              /\ config = Profile(Backends[Find(preferBackend)], TRUE)
              /\ cachedConfig = config
              /\ dpc = "returned" => result = config

\* C18 witness: the third candidate of the list was preferred, probed alone
\* and returned
C18_Witness ==
    /\ dpc = "returned"
    /\ preferBackend = "desktop"
    /\ probed = <<"desktop">>
    /\ reports = <<TRUE>>
    /\ result = Profile(Backends[3], TRUE)
    /\ cachedConfig = result

\* the backend table entry --gpu-backend name stands for
Forced(name) == IF Find(name) > 0 THEN Backends[Find(name)] ELSE SOFTWARE_FALLBACK

\* C19: a command line run with --gpu-backend X, X not auto, reports the
\* profile of backend X and launches the renderer's browser with the launch
\* configuration of X, whatever the probes report.
C19_CliForcesBackend ==
    (cliStep = "done" /\ gpuBackend \notin {"none", "auto"}) =>
        /\ reported.backend = gpuBackend
        /\ launchConfig = ChromiumConfig(Profile(Forced(gpuBackend), FALSE))

\* the ways a probe fails
ProbeFailures == {"launchError", "timeout", "noWebGL", "noRendererInfo"}

MatchesSoftwareSignature(renderer) ==
    LET lower == ToLowerCase(renderer)
    IN  \/ Includes(lower, <<"swiftshader">>)
        \/ Includes(lower, <<"llvm", "pipe">>)
        \/ Includes(lower, <<"software">>)
        \/ Includes(lower, <<"microsoft", " ", "basic", " ", "render">>)
        \/ Includes(lower, <<"mesa">>) /\ Includes(lower, <<"llvm">>)

\* C21: a probe that reports a renderer string counts as hardware accelerated
\* exactly when the string matches no software signature, and a profile whose
\* renderer string matches one is never selected as a hardware profile.
C21_SoftwareSignaturesNeverHardware ==
    lastOutcome \in {"softwareRenderer", "hardwareRenderer"} =>
        /\ reports[Len(reports)] <=> ~MatchesSoftwareSignature(lastRenderer)
        /\ (Decided /\ config.isHardwareAccelerated) =>
              ~MatchesSoftwareSignature(lastRenderer)


\* C22: the values passed to onProgress never go down from one report to the
\* next (frame and percent) and total stays the same; frame never exceeds
\* total; when the job has resolved, the last report is (total, total, 100).
C22_ProgressIsMonotone ==
    /\ [](progress # <<>> =>
             /\ progress[1].frame = encodedCount
             /\ progress[1].frame <= progress[1].total
             /\ progress[1].total = totalFrames
             /\ progress[1].percent \in 0 .. 100)
    /\ []((pc = "resolved" /\ totalFrames > 0) =>
             progress = << [frame |-> totalFrames, total |-> totalFrames, percent |-> 100] >>)
    /\ [][(progress' # progress /\ progress # <<>>) =>
             /\ progress' # <<>>
             /\ progress'[1].frame >= progress[1].frame
             /\ progress'[1].percent >= progress[1].percent
             /\ progress'[1].total = progress[1].total]_vars

\* C22 witness: a resolved 2-worker job of 7 frames whose last report is
\* (7, 7, 100)
C22_Witness ==
    /\ pc = "resolved"
    /\ numWorkers = 2
    /\ progress = << [frame |-> 7, total |-> 7, percent |-> 100] >>


\* loadCachedConfig has been called and has returned in the current call
Loaded == dpc \notin {"idle", "load"} /\ ~forceDetect /\ atCall.mem = NullConfig

\* C23: a cache file that is missing, unreadable or corrupt is a cache miss
\* (the call goes on to probe) and never makes the call fail; a cache write
\* that fails is swallowed: the call still returns the profile it detected
\* and has stored it in the in-memory cache.
C23_CacheFileFailuresAreAbsorbed ==
    /\ dpc # "threw"
    /\ (Loaded /\ atLoad.file.state \in {"missing", "corrupt"}) =>
          /\ hit = "none"
          /\ probed # <<>>
    /\ (dpc = "returned" /\ saved \in {"failed", "partial"}) =>
          /\ result # NullConfig
          /\ result = config
          /\ result.isHardwareAccelerated = SomeReport
          /\ cachedConfig = result

\* C23 witness: the cache file was corrupt, the second candidate reported
\* hardware acceleration, the cache write failed, and the profile was
\* returned and is in memory
C23_Witness ==
    /\ dpc = "returned"
    /\ atLoad.file = CorruptFile
    /\ probed = <<"vulkan", "egl">>
    /\ saved = "failed"
    /\ cacheFile = CorruptFile
    /\ result = Profile(Backends[2], TRUE)
    /\ cachedConfig = result


\* the indices in the buffer when the processEncodeQueue call of this step
\* looks at it: a worker whose capture returns has just inserted its frame
AtDrain ==
    DOMAIN frameBuffer
        \cup {CurrentFrame(w) : w \in {v \in Workers : wpc[v] = "capture" /\ wpc'[v] # "capture"
                                                      /\ wpc'[v] # "failed"}}

\* the length of the longest run of indices from..from+1.. in set present
RunLength(present, from) ==
    CHOOSE n \in 0 .. Cardinality(present) :
        /\ \A k \in 0 .. (n - 1) : from + k \in present
        /\ from + n \notin present

\* caller c's processEncodeQueue call collects a batch in this step
Drains(c) == ~enc[c].active /\ enc'[c].active

\* a processEncodeQueue call comes back empty-handed in this step
DrainsNothing ==
    \/ \E w \in Workers : wpc[w] = "capture" /\ wpc'[w] = "retIns"
    \/ \E w \in Workers : wpc[w] = "sleep" /\ wpc'[w] = "retWait"
    \/ pc = "drain" /\ pc' = "mainRet"

\* C24: a processEncodeQueue call collects the longest run of frames present
\* at consecutive indices from nextEncodeFrame on, cut at ENCODE_BATCH_SIZE,
\* in index order; it removes exactly those entries, and nextEncodeFrame
\* advances by their number when the encoder call has returned. With the frame
\* at nextEncodeFrame absent the batch is empty and nothing is removed or
\* encoded, whatever later frames are present.
C24_DrainTakesLongestRun ==
    [][/\ \A c \in Callers :
             Drains(c) =>
                 LET n == Len(enc'[c].todo)
                     run == RunLength(AtDrain, nextEncodeFrame)
                 IN  /\ n = IF run < ENCODE_BATCH_SIZE THEN run ELSE ENCODE_BATCH_SIZE
                     /\ n >= 1
                     /\ \A k \in 1 .. n : enc'[c].todo[k].index = nextEncodeFrame + k - 1
                     /\ DOMAIN frameBuffer' = AtDrain \ (nextEncodeFrame .. (nextEncodeFrame + n - 1))
                     /\ enc'[c].len = n
                     /\ enc'[c].lookahead = nextEncodeFrame + n
       /\ \A c \in Callers :
             (enc[c].active /\ ~enc'[c].active /\ encodedCount' # encodedCount) =>
                 /\ nextEncodeFrame' = nextEncodeFrame + enc[c].len
                 /\ encodedCount' = encodedCount + enc[c].len
       /\ DrainsNothing =>
             /\ nextEncodeFrame \notin AtDrain
             /\ DOMAIN frameBuffer' = AtDrain
             /\ enc' = enc
             /\ appended' = appended
             /\ nextEncodeFrame' = nextEncodeFrame
       /\ nextEncodeFrame' # nextEncodeFrame =>
             \E c \in Callers : enc[c].active /\ ~enc'[c].active
      ]_vars

\* C24 witness: a worker's processEncodeQueue call came back empty-handed
\* with frame 1 in the buffer, frame 0 not yet captured and nothing on the
\* encoder
C24_Witness ==
    /\ \E w \in Workers : wpc[w] = "retIns"
    /\ nextEncodeFrame = 0
    /\ DOMAIN frameBuffer = {1}
    /\ \A c \in Callers : ~enc[c].active
    /\ appended = <<>>


\* worker w requests a capture in this step
Issues(w) == wpc[w] # "capture" /\ wpc'[w] = "capture"

\* worker w, back from the processEncodeQueue call after an insert, goes on
\* to a further frame in this step
GoesOn(w) == wpc[w] = "retIns" /\ wpc'[w] # "retIns" /\ wpos[w] < Len(frameAssignments[w])

Inserts(w) == wpc[w] = "capture" /\ wpc'[w] \in {"encIns", "retIns"}

\* frame i was deleted from the buffer: it is below nextEncodeFrame or in
\* the batch a caller is having encoded
Removed(i) ==
    \/ i < nextEncodeFrame
    \/ \E c \in Callers : enc[c].active /\ nextEncodeFrame <= i /\ i < enc[c].lookahead

\* the frames deleted from the buffer in this step
Gone ==
    {i \in 0 .. (totalFrames - 1) :
        /\ i \notin DOMAIN frameBuffer'
        /\ \/ i \in DOMAIN frameBuffer
           \/ \E w \in Workers : Inserts(w) /\ i = CurrentFrame(w)}

\* C26: no frame index is captured, inserted or removed twice: a capture is
\* requested at most once per index, the frame a worker inserts was never in
\* the buffer before, the frames deleted in one step are the consecutive run
\* from nextEncodeFrame on that a caller took as its batch, and
\* nextEncodeFrame only moves up, over frames that are out of the buffer and
\* were appended in increasing order; a job that resolves has captured,
\* inserted and removed every index of [0, totalFrames) exactly once.
C26_EveryFrameOnce ==
    /\ [](\A i \in DOMAIN captureCount : captureCount[i] <= 1)
    /\ [](pc = "resolved" =>
            /\ nextEncodeFrame = totalFrames
            /\ DOMAIN frameBuffer = {}
            /\ \A i \in 0 .. (totalFrames - 1) : captureCount[i] = 1 /\ Removed(i))
    /\ [][/\ \A w \in Workers :
               Inserts(w) =>
                   /\ captureCount[CurrentFrame(w)] = 1
                   /\ CurrentFrame(w) \notin DOMAIN frameBuffer
                   /\ ~Removed(CurrentFrame(w))
          /\ Gone # {} =>
               \E c \in Callers :
                   /\ Drains(c)
                   /\ Gone = nextEncodeFrame .. (enc'[c].lookahead - 1)
          /\ nextEncodeFrame' # nextEncodeFrame =>
               /\ nextEncodeFrame' > nextEncodeFrame
               /\ \A i \in nextEncodeFrame .. (nextEncodeFrame' - 1) :
                     /\ i \notin DOMAIN frameBuffer
                     /\ captureCount[i] = 1
                     /\ appended[i + 1].index = i
         ]_vars

\* C26 witness: a two-worker job resolved after all of its 6 frames went
\* through the buffer
C26_Witness ==
    /\ pc = "resolved"
    /\ numWorkers = 2
    /\ totalFrames = 6
    /\ nextEncodeFrame = 6
    /\ \A i \in 0 .. 5 : captureCount[i] = 1


Outstanding(w) ==
    {i \in Indices(frameAssignments[w]) :
        /\ captureCount[i] > 0
        /\ i \notin DOMAIN frameBuffer
        /\ i \notin failedFrames
        /\ \A k \in 1 .. Len(appended) : appended[k].index # i
        /\ \A c \in Callers : \A k \in 1 .. Len(enc[c].todo) : enc[c].todo[k].index # i}

\* C28: a worker requests its captures in strictly increasing frame index
\* order, so at increasing timestamps i / fps: the frame it requests is above
\* every frame it requested before, and it is sought at Timestamp(i, fps).
\* A worker has at most one capture outstanding, and has one exactly while it
\* awaits captureFrameJPEG (stated for jobs in which no batch was lost to a
\* failed encode call, where the frames that came back can still be told).
C28_WorkerCapturesInOrder ==
    /\ []("encode" \notin thrown =>
            \A w \in Workers :
                /\ Cardinality(Outstanding(w)) <= 1
                /\ Outstanding(w) # {} <=> wpc[w] = "capture"
                /\ wpc[w] = "capture" => Outstanding(w) = {CurrentFrame(w)})
    /\ []( \A i \in DOMAIN frameBuffer : frameBuffer[i].seek = Timestamp(i, fps) )
    /\ [][\A w \in Workers :
             Issues(w) =>
                 \E i \in Indices(frameAssignments'[w]) :
                     /\ captureCount'[i] = captureCount[i] + 1
                     /\ \A j \in Indices(frameAssignments'[w]) :
                           captureCount[j] > 0 => j < i
         ]_vars

\* C28 witness: a worker awaits its third capture or a later one while a
\* frame above it, captured by the other worker, is already in the buffer
C28_Witness ==
    \E w \in Workers :
        /\ wpc[w] = "capture"
        /\ wpos[w] >= 3
        /\ \E i \in DOMAIN frameBuffer : i > CurrentFrame(w)


\* C29: the pool holds one encoder page, pages[0], and, once set up,
\* numWorkers worker pages; the frames worker k requests are sought on
\* pages[k + 1] and on no other page, nothing is sought on the encoder page,
\* and the calls on the encode canvas and the output (initialisation, batch
\* encode, finalisation) are made on the encoder page only, the batch encode
\* only by processEncodeQueue and the finalisation only after the drain.
C29_WorkersKeepToTheirPages ==
    /\ DOMAIN pages = 0 .. (pagesReady - 1)
    /\ pagesReady <= numWorkers + 1
    /\ Started => pagesReady = numWorkers + 1
    /\ \A p \in DOMAIN pages :
          /\ pages[p].role = "encoder" <=> p = 0
          /\ pages[p].role = "worker" <=> p \in 1 .. numWorkers
          /\ p = 0 => pages[p].seeks = {}
          /\ p # 0 => /\ pages[p].calls = {}
                      /\ pages[p].seeks =
                            {i \in Indices(frameAssignments[p - 1]) : captureCount[i] > 0}
    /\ \A w \in Workers :
          \A i \in Indices(frameAssignments[w]) :
              captureCount[i] > 0 => i \in pages[w + 1].seeks
    /\ pages # <<>> =>
          /\ pages[0].calls \subseteq {"init", "encode", "finalize"}
          /\ "encode" \in pages[0].calls =>
                \/ \E c \in Callers : enc[c].active
                \/ appended # <<>>
                \/ "encode" \in thrown
          /\ "finalize" \in pages[0].calls <=> FinalizeStarted

\* C29 witness: a two-worker job resolved; both worker pages captured frames
\* and the encoder page served initialisation, batches and finalisation
C29_Witness ==
    /\ pc = "resolved"
    /\ numWorkers = 2
    /\ pages[1].seeks # {}
    /\ pages[2].seeks # {}
    /\ pages[0].calls = {"init", "encode", "finalize"}

\* a call has been made on page p
Used(p) == pages[p].seeks # {} \/ pages[p].calls # {}

\* C30 (as claimed): every page, the encoder page as well as each worker
\* page, has had its readiness signal observed before a call is made on it,
\* and no capture is requested before all numWorkers + 1 pages are set up.
C30_PagesReadyBeforeUse ==
    /\ \A p \in DOMAIN pages : Used(p) => pages[p].ready
    /\ (\E p \in DOMAIN pages : pages[p].seeks # {}) => pagesReady = numWorkers + 1


\* C31: while a worker's capture call is pending and no awaited call has
\* thrown, the job is still at Promise.all: it has not settled, the browser
\* and the server are up, nothing is finalized, encodedCount is below
\* totalFrames and nextEncodeFrame cannot pass the pending frame.  A pending
\* capture ends only by returning or by throwing: no timer or watchdog takes
\* the worker out of the call.  So a capture that never returns and never
\* throws leaves the job pending forever.
C31_HungCaptureBlocksJob ==
    /\ [](\A w \in Workers :
            (wpc[w] = "capture" /\ thrown = {}) =>
                /\ pc = "awaitWorkers"
                /\ encodedCount < totalFrames
                /\ nextEncodeFrame <= CurrentFrame(w)
                /\ finalized = 0
                /\ ~browserClosed
                /\ ~serverCleaned)
    /\ [][\A w \in Workers :
             (wpc[w] = "capture" /\ wpc'[w] # "capture") =>
                 \/ Inserts(w)
                 \/ wpc'[w] = "failed" /\ CurrentFrame(w) \in failedFrames'
         ]_vars

\* C31 witness: every other worker has returned and frames are stored, but
\* the frame the encoder needs next is the one whose capture is pending
C31_Witness ==
    /\ numWorkers = 2
    /\ thrown = {}
    /\ frameBuffer # <<>>
    /\ \A c \in Callers : ~enc[c].active
    /\ \E w \in Workers :
          /\ wpc[w] = "capture"
          /\ CurrentFrame(w) = nextEncodeFrame
          /\ \A v \in Workers \ {w} : wpc[v] = "done"


\* the workers whose capture call is pending
Capturing == {w \in Workers : wpc[w] = "capture"}

\* C32: frameBuffer never holds more than MAX_BUFFERED_FRAMES + numWorkers
\* frames: a capture is requested only with at most MAX_BUFFERED_FRAMES frames
\* in the buffer, and the frames in the buffer plus the captures still pending
\* (one per worker at most) never exceed MAX_BUFFERED_FRAMES + numWorkers.
C32_BufferWithinCapacityPlusWorkers ==
    /\ [](Size(frameBuffer) <= MAX_BUFFERED_FRAMES + numWorkers)
    /\ [](Size(frameBuffer) + Cardinality(Capturing) <= MAX_BUFFERED_FRAMES + numWorkers)
    /\ [][\A w \in Workers : Issues(w) => Size(frameBuffer) <= MAX_BUFFERED_FRAMES]_vars

\* C32 witness: the buffer is above MAX_BUFFERED_FRAMES after a worker that
\* had passed the flow-control check stored its frame, and that worker is
\* about to run the check again
C32_Witness ==
    /\ Size(frameBuffer) > MAX_BUFFERED_FRAMES
    /\ \E w \in Workers :
          /\ wpc[w] = "retIns"
          /\ wpos[w] < Len(frameAssignments[w])
          /\ CurrentFrame(w) \in DOMAIN frameBuffer


\* runWorker(w) has returned or thrown
Terminated(w) == wpc[w] \in {"done", "failed"}

\* C33 (as claimed): once the job has rejected because a capture or an
\* encode call of a worker failed, and the browser is closed, every worker
\* task eventually terminates.
C33_WorkersStopAfterRejection ==
    (pc = "rejected" /\ firstFail # "none" /\ browserClosed)
        ~> (\A w \in Workers : Terminated(w))


\* C34: once an encode call has thrown, the frame at nextEncodeFrame is gone
\* from frameBuffer and no batch is in flight, and from then on no step
\* appends to the encoder, starts a batch, or changes nextEncodeFrame or
\* encodedCount, which stays below totalFrames.
C34_NoAppendAfterEncodeFailure ==
    /\ []("encode" \in thrown =>
            /\ nextEncodeFrame \notin DOMAIN frameBuffer
            /\ encodedCount < totalFrames
            /\ \A c \in Callers : ~enc[c].active)
    /\ [][ "encode" \in thrown =>
             /\ appended' = appended
             /\ encodedCount' = encodedCount
             /\ nextEncodeFrame' = nextEncodeFrame
             /\ \A c \in Callers : ~enc'[c].active
         ]_vars

\* C34 witness: after an encode call threw, another worker stored a frame
\* and its processEncodeQueue call came back with nothing, although the frame
\* that follows the lost one is in the buffer
C34_Witness ==
    /\ "encode" \in thrown
    /\ (nextEncodeFrame + 1) \in DOMAIN frameBuffer
    /\ \E w \in Workers :
          /\ wpc[w] = "retIns"
          /\ wpos[w] >= 2
          /\ CurrentFrame(w) \in DOMAIN frameBuffer


\* C35 (as claimed): when browser.close() threw in the finally block,
\* cleanupServer has still been called (it returned or threw) by the time the
\* job has settled.
C35_CleanupAfterFailedClose ==
    ("close" \in thrown /\ pc \in {"resolved", "rejected"}) =>
        (serverCleaned \/ "cleanup" \in thrown)


\* C36 (as claimed): the browser a probe launched is closed when the probe
\* returns, also when context creation, page creation or the in-page query
\* threw after the launch.
C36_ProbeBrowserIsClosed ==
    lastOutcome # "none" => TestGPUBackend(lastOutcome).browser # "open"


\* C37 (as claimed): within one detectBestGPUConfig call no backend is probed
\* twice, also when a preferred backend was probed first and did not report
\* hardware acceleration.
C37_EachCandidateProbedOnce ==
    \A j, k \in 1 .. Len(probed) : j # k => probed[j] # probed[k]

\* the call found a cached profile: in memory, or (memory being empty) in a
\* readable file written less than CACHE_TTL ago
FoundInMemory == atCall.mem # NullConfig

FoundInFile ==
    /\ atCall.mem = NullConfig
    /\ atLoad.file.state = "valid"
    /\ atLoad.now - atLoad.file.timestamp < CACHE_TTL

\* C38: a call without forceDetect that finds a cached profile returns that
\* profile and probes nothing, whatever preferBackend names; a call probes,
\* and so a preference can take effect, only with forceDetect or when neither
\* cache held a profile (as after clearGPUCache).
C38_CacheBeatsPreference ==
    /\ (dpc \notin {"idle", "load"} /\ ~forceDetect /\ preferBackend # "none"
           /\ (FoundInMemory \/ FoundInFile)) =>
          /\ dpc = "returned"
          /\ probed = <<>>
          /\ result = IF FoundInMemory THEN atCall.mem ELSE atLoad.file.config
    /\ probed # <<>> =>
          \/ forceDetect
          \/ dpc # "idle" /\ ~FoundInMemory /\ ~FoundInFile

\* C38 witness: the command line asked for a backend, the cache file outlived
\* clearGPUCache, and the call returned the cached profile of another backend
\* without a probe
C38_Witness ==
    /\ dpc = "returned"
    /\ caller = "cli"
    /\ ~forceDetect
    /\ Find(preferBackend) > 0
    /\ hit = "file"
    /\ result.backend # preferBackend
    /\ result.isHardwareAccelerated
    /\ probed = <<>>


\* C39: whatever the batch size, the frame loop of renderToMp4Optimized seeks
\* and then capture-encodes the frames 0, 1, 2, ... in this order, frame i at
\* time i / fps, never a frame at or beyond totalFrames; when the loop is left
\* normally, each of the totalFrames frames was sought and encoded exactly
\* once and the last progress report is for frame totalFrames - 1 with
\* percent 100; and the loop always ends, normally or by a call that throws.
C39_OptimizedLoopCoversEveryFrame ==
    /\ [](\A k \in 1 .. Len(sought) : sought[k] = Timestamp(k - 1, fps))
    /\ [](\A k \in 1 .. Len(encoded) :
             /\ encoded[k].frame = k - 1
             /\ encoded[k].timestamp = sought[k])
    /\ [](Len(encoded) <= Len(sought) /\ Len(sought) <= totalFrames)
    /\ [](optProgress # <<>> =>
             /\ optProgress[1].frame = Len(encoded) - 1
             /\ optProgress[1].total = totalFrames
             /\ Len(encoded) = totalFrames => optProgress[1].percent = 100)
    /\ [](opc = "done" =>
             /\ Len(sought) = totalFrames
             /\ Len(encoded) = totalFrames
             /\ optProgress # <<>>)
    /\ (opc = "start") ~> (opc \in {"done", "failed"})

\* C39 witness: 8 frames were rendered in batches of 3, the last batch cut
\* short at totalFrames
C39_Witness ==
    /\ opc = "done"
    /\ totalFrames = 8
    /\ batchSize = 3
    /\ batchIndex = 3
    /\ Len(encoded) = 8
    /\ optProgress[1].percent = 100

\* C40: in every state of renderToMp4Parallel between awaits,
\* nextEncodeFrame = encodedCount <= totalFrames, every index below
\* nextEncodeFrame has been appended to the encoder, every key of frameBuffer
\* is at least nextEncodeFrame and below totalFrames, and once the job
\* finalizes frameBuffer is empty and nextEncodeFrame = totalFrames.
C40_EncodeQueueInvariant ==
    /\ nextEncodeFrame = encodedCount
    /\ encodedCount <= totalFrames
    /\ \A i \in 0 .. (nextEncodeFrame - 1) :
          \E k \in 1 .. Len(appended) : appended[k].index = i
    /\ \A i \in DOMAIN frameBuffer : nextEncodeFrame <= i /\ i < totalFrames
    /\ FinalizeStarted => /\ DOMAIN frameBuffer = {}
                          /\ nextEncodeFrame = totalFrames

\* a batch past the first one is half-way through the encoder while later
\* frames already wait in the buffer
C40_Witness ==
    /\ nextEncodeFrame >= 2
    /\ \E c \in DOMAIN enc : /\ enc[c].active
                              /\ enc[c].todo # <<>>
                              /\ Len(enc[c].todo) < enc[c].len
    /\ DOMAIN frameBuffer # {}

====
